---- MODULE Spec2Model ----
(***************************************************************************)
(* Model of the PageSpeed Insights screenshot extension's background       *)
(* script (most recent revision: configurable padding, domain extraction). *)
(* One click of the browser action runs the click handler, which gates on  *)
(* the scripting API and the tab URL and then runs captureBothScreenshots. *)
(* Every await of the handler is one step of the model; what the host      *)
(* (script injection, capture, download, clock) answers is chosen by \E.   *)
(* Strings whose characters matter (identifiers, timestamps, filenames)    *)
(* are sequences of one-character strings.                                 *)
(***************************************************************************)
EXTENDS Integers, Sequences, FiniteSets, TLC

VARIABLES
  pc,                 \* position of the click handler / captureBothScreenshots
  handler,            \* "idle", "running", "resolved" or "rejected"
  scriptingAvailable, \* chrome.scripting is defined
  downloadsAvailable, \* chrome.downloads is defined
  tab,                \* the clicked tab (its url, as far as the code reads it)
  pageDomain,         \* what extractTestedDomain yields on this page
  i,                  \* loop index of captureBothScreenshots (1-based)
  results,            \* the results array of captureBothScreenshots
  elementInfo,        \* elementResults[0].result of the current iteration
  dataUrl,            \* length of the captured data URL (0: none)
  elapsed,            \* waitForElementVisible: Date.now() - startTime at the
                      \* current call of checkVisibility
  thrown,             \* message of the error caught by the click handler
  downloads,          \* calls made to chrome.downloads.download, in order
                      \* (image: the iteration whose crop is saved; iso: the
                      \* clock reading the name was made from)
  notifications,      \* showNotification injections requested, in order
  finished,           \* history: the iterations that ended, with how
  runLog,             \* history: the steps outside the iterations
  log,                \* history: the steps of the latest iteration, in order
  switchDom,          \* history: the controls switchToDeviceView just ran on
                      \* and the ones it clicked (kept until the settle wait)
  san,                \* the identifier sanitization applied on its own
  crop,               \* cropScreenshotInPage run on its own
  poll,               \* waitForElementVisible run on its own
  runs,               \* several clicks of the action on the same tab
  dom,                \* the sources of the tested domain, read on their own
  det,                \* getPerformanceScoreElement's rectangle on its own
  doc,                \* what the extension adds to the page's document
  hl,                 \* content script: highlightTargetElement
  wfr                 \* content script: waitForResults

\* The state of one click of the action.
mainVars == <<pc, handler, scriptingAvailable, downloadsAvailable, tab,
              pageDomain, i, results, elementInfo, dataUrl, elapsed, thrown,
              downloads, notifications, finished, runLog, log, switchDom>>

\* The state of the functions and scenarios studied on their own.
funVars == <<san, crop, poll, runs>>
pageVars == <<dom, det, doc, hl, wfr>>
auxVars == <<funVars, pageVars>>

vars == <<mainVars, auxVars>>

(***************************************************************************)
(* Characters and strings                                                  *)
(***************************************************************************)
Lower == {"a","b","c","d","e","f","g","h","i","j","k","l","m",
          "n","o","p","q","r","s","t","u","v","w","x","y","z"}
Upper == {"A","B","C","D","E","F","G","H","I","J","K","L","M",
          "N","O","P","Q","R","S","T","U","V","W","X","Y","Z"}
Digit == {"0","1","2","3","4","5","6","7","8","9"}

\* String.prototype.toUpperCase on one character (only the letters that can
\* start a device type differ from their upper case here).
toUpperCase(c) ==
  CASE c = "m" -> "M"
    [] c = "d" -> "D"
    [] OTHER -> c

\* The characters of a device type.
ModeChars(m) ==
  IF m = "mobile" THEN <<"m","o","b","i","l","e">>
  ELSE <<"d","e","s","k","t","o","p">>

\* s.replace(/^www\./, "")
StripWww(s) ==
  IF Len(s) >= 4 /\ SubSeq(s, 1, 4) = <<"w","w","w",".">>
  THEN SubSeq(s, 5, Len(s)) ELSE s

\* s.replace(/[^a-zA-Z0-9.-]/g, "_")
ReplaceSpecial(s) ==
  [k \in 1..Len(s) |->
     IF s[k] \in Lower \cup Upper \cup Digit \cup {".", "-"} THEN s[k] ELSE "_"]

\* s.replace(/_{2,}/g, "_")
RECURSIVE CollapseUnderscores(_)
CollapseUnderscores(s) ==
  IF Len(s) < 2 THEN s
  ELSE IF s[1] = "_" /\ s[2] = "_" THEN CollapseUnderscores(Tail(s))
  ELSE <<s[1]>> \o CollapseUnderscores(Tail(s))

\* Bug: only the leading underscore is removed.
TrimLeadingOnly(s) == IF Len(s) > 0 /\ s[1] = "_" THEN Tail(s) ELSE s

\* s.replace(/^_|_$/g, "")
TrimUnderscore(s) ==
  LET a == IF Len(s) > 0 /\ s[1] = "_" THEN Tail(s) ELSE s
  IN  IF Len(a) > 0 /\ a[Len(a)] = "_" THEN SubSeq(a, 1, Len(a) - 1) ELSE a

\* Bug: the edges are trimmed before the runs of underscores are collapsed.
cleanDomainTrimFirst(domain) ==
  CollapseUnderscores(TrimUnderscore(ReplaceSpecial(StripWww(domain))))

\* const cleanDomain = domain.replace(..).replace(..).replace(..).replace(..)
cleanDomain(domain) ==
  TrimUnderscore(CollapseUnderscores(ReplaceSpecial(StripWww(domain))))

\* iso.replace(/[:.]/g, "-")
ReplaceColonDot(s) ==
  [k \in 1..Len(s) |-> IF s[k] \in {":", "."} THEN "-" ELSE s[k]]

\* s.slice(0, 19)
Slice19(s) == SubSeq(s, 1, IF Len(s) < 19 THEN Len(s) ELSE 19)

\* new Date().toISOString().replace(/[:.]/g, "-").slice(0, 19)
timestamp(iso) == Slice19(ReplaceColonDot(iso))

Prefix == <<"p","a","g","e","s","p","e","e","d","-","s","c","o","r","e","-">>
DotPng == <<".","p","n","g">>

\* Bug: the file name of the single-capture revision, without the mode.
filenameWithoutMode(domain, device, iso) ==
  Prefix \o cleanDomain(domain) \o <<"-">> \o timestamp(iso) \o DotPng

\* `pagespeed-score-${cleanDomain}-${deviceType}-${timestamp}.png`
filename(domain, device, iso) ==
  Prefix \o cleanDomain(domain) \o <<"-">> \o ModeChars(device)
         \o <<"-">> \o timestamp(iso) \o DotPng

(***************************************************************************)
(* CONFIG and the values the environment can answer with                   *)
(***************************************************************************)
MIN_SCREENSHOT_SIZE_BYTES == 1000
MOBILE_SWITCH_WAIT_MS == 500
DESKTOP_SWITCH_WAIT_MS == 500
DESKTOP_EXTRA_WAIT_MS == 1000
ELEMENT_VISIBILITY_TIMEOUT_MS == 10000
VISIBILITY_CHECK_INTERVAL_MS == 150

\* Bug: the loop visits desktop first.
deviceTypesDesktopFirst == <<"desktop", "mobile">>

\* const deviceTypes = ["mobile", "desktop"]
deviceTypes == <<"mobile", "desktop">>

\* let domain = "pagespeed-result"
DefaultDomain ==
  <<"p","a","g","e","s","p","e","e","d","-","r","e","s","u","l","t">>

\* Lengths of the data URL returned by chrome.tabs.captureVisibleTab
\* (0 stands for an undefined or empty result).
ImageLengths ==
  {0, MIN_SCREENSHOT_SIZE_BYTES - 1, MIN_SCREENSHOT_SIZE_BYTES}

\* Messages of the errors a host API call can fail with.
HostErrors == {"", "Cannot access contents of the page"}

\* Results of extractTestedDomain on the page (<<>>: null, nothing found).
PageDomains ==
  { <<>>,
    <<"e","x","a","m","p","l","e",".","c","o","m">>,
    <<"w","w","w",".","a"," ","&","b","_">> }

\* Values of new Date().toISOString() at the time a file is named.
Timestamps ==
  { <<"2","0","2","4","-","0","1","-","1","5","T","1","0",":","3","0",":",
      "4","5",".","1","2","3","Z">>,
    <<"2","0","2","5","-","1","2","-","3","1","T","2","3",":","5","9",":",
      "5","9",".","0","0","0","Z">> }

\* The clicked tab: whether tab.url is set, whether it contains
\* "pagespeed.web.dev/", and its url query parameter ("none", "invalid":
\* not parseable by new URL, "url": parseable, with the given hostname).
Tabs ==
  { [hasUrl |-> FALSE, psi |-> FALSE, param |-> "none", hostname |-> <<>>],
    [hasUrl |-> TRUE,  psi |-> FALSE, param |-> "none", hostname |-> <<>>],
    [hasUrl |-> TRUE,  psi |-> TRUE,  param |-> "none", hostname |-> <<>>],
    [hasUrl |-> TRUE,  psi |-> TRUE,  param |-> "invalid", hostname |-> <<>>],
    [hasUrl |-> TRUE,  psi |-> TRUE,  param |-> "url",
     hostname |-> <<"w","w","w",".","b",".","i","o">>] }

\* What an awaited host call answers: it threw msg, or it returned.
Threw(a) == a.threw
Failures == {[threw |-> TRUE, msg |-> m] : m \in HostErrors}
Returned == [threw |-> FALSE, msg |-> ""]

(***************************************************************************)
(* History                                                                 *)
(***************************************************************************)
\* switchToDeviceView is not running or its effect was already observed.
NoDom == [elements |-> <<>>, clicked |-> <<>>]

\* The functions studied on their own are not in use.
SanAtRest == [phase |-> "rest", input |-> <<>>, once |-> <<>>, twice |-> <<>>]
CropAtRest == [phase |-> "rest"]
PollAtRest == [phase |-> "rest"]
RunsAtRest == [phase |-> "rest"]
DomAtRest == [phase |-> "rest"]
DetAtRest == [phase |-> "rest"]
DocAtRest == [phase |-> "rest"]
HlAtRest == [phase |-> "rest"]
WfrAtRest == [phase |-> "rest"]
FunAtRest ==
  /\ san = SanAtRest
  /\ crop = CropAtRest
  /\ poll = PollAtRest
  /\ runs = RunsAtRest
PageAtRest ==
  /\ dom = DomAtRest
  /\ det = DetAtRest
  /\ doc = DocAtRest
  /\ hl = HlAtRest
  /\ wfr = WfrAtRest
AuxAtRest == FunAtRest /\ PageAtRest

Ev(m, e, o) == [mode |-> m, ev |-> e, out |-> o, len |-> 0]
\* A timed suspension and the delay it was set for.
WaitEv(m, e, ms) == [mode |-> m, ev |-> e, out |-> "", len |-> ms]
\* A call of the capture API: what it answered and the length it returned.
CaptureEv(m, a) ==
  [mode |-> m, ev |-> "capture",
   out |-> IF a.threw THEN "threw" ELSE "returned", len |-> a.len]

\* The device type of the current iteration.
deviceType == deviceTypes[i]

(***************************************************************************)
(* Initial state: the background script is loaded, nothing was clicked.    *)
(***************************************************************************)
Init ==
  /\ pc = "idle"
  /\ handler = "idle"
  /\ scriptingAvailable \in BOOLEAN
  /\ downloadsAvailable \in BOOLEAN
  /\ tab \in Tabs
  /\ pageDomain \in PageDomains
  /\ i = 1
  /\ results = <<>>
  /\ elementInfo = [found |-> FALSE]
  /\ dataUrl = 0
  /\ elapsed = 0
  /\ thrown = ""
  /\ downloads = <<>>
  /\ notifications = <<>>
  /\ finished = <<>>
  /\ runLog = <<>>
  /\ log = <<>>
  /\ switchDom = NoDom
  /\ AuxAtRest

(***************************************************************************)
(* Notifications                                                           *)
(***************************************************************************)
GateMessage == [kind |-> "gate", mode |-> <<>>, detail |-> ""]
ErrorMessage(msg) == [kind |-> "error", mode |-> <<>>, detail |-> msg]

(***************************************************************************)
(* chrome.action.onClicked listener                                        *)
(***************************************************************************)
\* Bug: any tab with a URL passes.
UrlGatePassedAnyUrl(t) == t.hasUrl

\* tab.url && tab.url.includes("pagespeed.web.dev/")
UrlGatePassed(t) == t.hasUrl /\ t.psi

\* Bug: on a wrong page the listener returns without notifying.
ClickSilentGate ==
  /\ pc = "idle"
  /\ IF ~scriptingAvailable \/ ~UrlGatePassed(tab)
       THEN pc' = "done" /\ handler' = "resolved"
       ELSE pc' = "setViewport" /\ handler' = "running"
  /\ UNCHANGED <<scriptingAvailable, downloadsAvailable, tab, pageDomain, i,
                 results, elementInfo, dataUrl, elapsed, thrown, downloads,
                 notifications, finished, runLog, log>>
  /\ UNCHANGED <<switchDom, auxVars>>

\* The listener up to its first await.
Click ==
  /\ pc = "idle"
  /\ IF ~scriptingAvailable
       THEN pc' = "done" /\ handler' = "resolved"
       ELSE /\ handler' = "running"
            /\ pc' = IF UrlGatePassed(tab) THEN "setViewport" ELSE "gateNotify"
  /\ UNCHANGED <<scriptingAvailable, downloadsAvailable, tab, pageDomain, i,
                 results, elementInfo, dataUrl, elapsed, thrown, downloads,
                 notifications, finished, runLog, log>>
  /\ UNCHANGED <<switchDom, auxVars>>

\* The "only works on PageSpeed Insights" notification; its failure is caught.
GateNotify ==
  /\ pc = "gateNotify"
  /\ notifications' = Append(notifications, GateMessage)
  /\ \E a \in Failures \cup {Returned} :
       /\ pc' = "done"
       /\ handler' = "resolved"
       /\ runLog' = Append(runLog, Ev("run", "gateNotify",
                                      IF Threw(a) THEN "threw" ELSE "ok"))
  /\ UNCHANGED <<scriptingAvailable, downloadsAvailable, tab, pageDomain, i,
                 results, elementInfo, dataUrl, elapsed, thrown, downloads, finished,
                 log>>
  /\ UNCHANGED <<switchDom, auxVars>>

\* Bug: a failure of the error notification is not caught.
SettleRejectsOnFailure(a) == IF Threw(a) THEN "rejected" ELSE "resolved"

\* What the listener settles with after the error notification of its catch
\* block returned or failed (the inner try/catch swallows the failure).
SettleAfterErrorNotify(a) == "resolved"

\* catch (error) of the listener: request the error notification.
ErrorNotify ==
  /\ pc = "errorNotify"
  /\ notifications' = Append(notifications, ErrorMessage(thrown))
  /\ \E a \in Failures \cup {Returned} :
       /\ pc' = "done"
       /\ handler' = SettleAfterErrorNotify(a)
       /\ runLog' = Append(runLog, Ev("run", "errorNotify",
                                      IF Threw(a) THEN "threw" ELSE "ok"))
  /\ UNCHANGED <<scriptingAvailable, downloadsAvailable, tab, pageDomain, i,
                 results, elementInfo, dataUrl, elapsed, thrown, downloads, finished,
                 log>>
  /\ UNCHANGED <<switchDom, auxVars>>

(***************************************************************************)
(* captureBothScreenshots                                                  *)
(***************************************************************************)
\* await safeExecuteScript(tab.id, setViewportSize, ..): outside every try of
\* captureBothScreenshots, so a failure goes to the listener's catch.
SetViewport ==
  /\ pc = "setViewport"
  /\ \E a \in Failures \cup {Returned} :
       IF Threw(a)
         THEN /\ thrown' = a.msg
              /\ pc' = "errorNotify"
              /\ runLog' = Append(runLog, Ev("run", "setViewport", "threw"))
         ELSE /\ pc' = "viewportWait"
              /\ runLog' = Append(runLog, Ev("run", "setViewport", "ok"))
              /\ UNCHANGED thrown
  /\ UNCHANGED <<handler, scriptingAvailable, downloadsAvailable, tab,
                 pageDomain, i, results, elementInfo, dataUrl, elapsed, downloads,
                 notifications, finished, log>>
  /\ UNCHANGED <<switchDom, auxVars>>

\* await new Promise(resolve => setTimeout(resolve, CONFIG.VIEWPORT_WAIT_MS))
ViewportWait ==
  /\ pc = "viewportWait"
  /\ pc' = "switch"
  /\ UNCHANGED <<handler, scriptingAvailable, downloadsAvailable, tab,
                 pageDomain, i, results, elementInfo, dataUrl, elapsed, thrown,
                 downloads, notifications, finished, runLog, log>>
  /\ UNCHANGED <<switchDom, auxVars>>

\* Where the for loop goes after the iteration with index k ended.
LoopNext(k) == IF k + 1 <= Len(deviceTypes) THEN "switch" ELSE "summary"

\* Bug: an error in one iteration ends the loop.
AfterCatchBreaks(k) == "summary"

\* Where control goes when the iteration with index k threw: its own catch
\* block handles it and the loop goes on.
AfterCatch(k) == LoopNext(k)

\* Bug: the catch block only logs and records nothing.
IterationCatchNoPush(msg, steps) ==
  /\ results' = results
  /\ log' = Append(steps, Ev(deviceType, "error", ""))
  /\ finished' = Append(finished, [mode |-> deviceType, outcome |-> "error"])
  /\ pc' = LoopNext(i)
  /\ i' = i + 1

\* catch (error) of the iteration: results.push({ deviceType, error }).
\* steps: the history of the iteration up to and including the step that threw.
IterationCatch(msg, steps) ==
  /\ results' = Append(results, [deviceType |-> deviceType, error |-> msg])
  /\ log' = Append(steps, Ev(deviceType, "error", ""))
  /\ finished' = Append(finished, [mode |-> deviceType, outcome |-> "error"])
  /\ pc' = AfterCatch(i)
  /\ i' = i + 1

(***************************************************************************)
(* switchToDeviceView                                                      *)
(***************************************************************************)
\* String.prototype.toLowerCase (only the capitals that occur in the pages
\* below differ from their lower case here).
toLowerCase(s) ==
  [k \in 1..Len(s) |-> CASE s[k] = "M" -> "m"
                         [] s[k] = "D" -> "d"
                         [] OTHER -> s[k]]

\* String.prototype.includes, and the CSS attribute selector [attr*="t"].
includes(s, t) ==
  \E k \in 1..(Len(s) - Len(t) + 1) : SubSeq(s, k, k + Len(t) - 1) = t

UnderscoreTab == <<"_","t","a","b">>

\* An element of the page, as far as switchToDeviceView reads it (texts have
\* no surrounding blanks; childClass / svgTestId: the class of a descendant,
\* the data-testid of a descendant svg).
Element(tag, role, id, text, ariaLabel, className, childClass, svgTestId) ==
  [tag |-> tag, role |-> role, id |-> id, textContent |-> text,
   ariaLabel |-> ariaLabel, className |-> className,
   childClass |-> childClass, svgTestId |-> svgTestId]

MobileTab ==
  Element("button", "tab", ModeChars("mobile") \o UnderscoreTab,
          <<"M">> \o Tail(ModeChars("mobile")), <<>>, <<>>, <<>>, <<>>)
DesktopTab ==
  Element("button", "tab", ModeChars("desktop") \o UnderscoreTab,
          <<"D">> \o Tail(ModeChars("desktop")), <<>>, <<>>, <<>>, <<>>)
MobileTextButton ==
  Element("button", "", <<>>, <<"M">> \o Tail(ModeChars("mobile")),
          <<>>, <<>>, <<>>, <<>>)
DesktopAriaTab ==
  Element("span", "tab", <<>>, <<>>,
          <<"D">> \o Tail(ModeChars("desktop")), <<>>, <<>>, <<>>)
MobileIconButton ==
  Element("button", "", <<>>, <<>>, <<>>, <<>>, ModeChars("mobile"), <<>>)
DesktopTabDiv ==
  Element("div", "", ModeChars("desktop") \o UnderscoreTab, <<>>, <<>>,
          ModeChars("desktop"), <<>>, <<>>)
OtherButton ==
  Element("button", "", <<"g","o">>, <<"g","o">>, <<>>, <<>>, <<>>, <<>>)

\* The elements of the page in document order: no element at all, no match,
\* the two tabs, a text match before an ID match, several matches, a match
\* by ID that is not a control.
Pages ==
  { <<>>,
    <<OtherButton>>,
    <<MobileTab, DesktopTab>>,
    <<MobileTextButton, OtherButton, MobileTab>>,
    <<MobileIconButton, MobileTextButton, DesktopAriaTab, DesktopAriaTab>>,
    <<OtherButton, DesktopTabDiv>>,
    <<DesktopAriaTab, DesktopTabDiv, DesktopTab>> }

\* document.querySelectorAll('button, [role="tab"], [role="button"]')
allButtons(page) ==
  {k \in 1..Len(page) :
     page[k].tag = "button" \/ page[k].role \in {"tab", "button"}}

\* button[id*="<t>"], [id*="<t>_tab"]
specificButton(e, t) ==
  \/ e.tag = "button" /\ includes(e.id, t)
  \/ includes(e.id, t \o UnderscoreTab)

\* The condition of the loop over allButtons for the target device type.
buttonMatches(e, t) ==
  \/ toLowerCase(e.textContent) = t
  \/ includes(toLowerCase(e.ariaLabel), t)
  \/ includes(toLowerCase(e.id), t)
  \/ includes(toLowerCase(e.className), t)
  \/ includes(e.svgTestId, t)
  \/ includes(e.childClass, t)

\* The first in document order.
First(S) == CHOOSE k \in S : \A j \in S : k <= j

\* Bug: every matching control is clicked.
switchToDeviceViewClicksAll(page, targetDeviceType) ==
  LET t == ModeChars(targetDeviceType)
      all == {k \in allButtons(page) : buttonMatches(page[k], t)}
  IN [clicked |-> IF all = {} THEN <<>>
                  ELSE [n \in 1..Cardinality(all) |->
                          CHOOSE k \in all :
                            Cardinality({j \in all : j < k}) = n - 1],
      result |-> all # {}]

\* switchToDeviceView: the positions of the elements it clicks, and what it
\* returns.
switchToDeviceView(page, targetDeviceType) ==
  LET t == ModeChars(targetDeviceType)
      byId == {k \in 1..Len(page) : specificButton(page[k], t)}
      byLoop == {k \in allButtons(page) : buttonMatches(page[k], t)}
      targetButton == IF byId # {} THEN First(byId)
                      ELSE IF byLoop # {} THEN First(byLoop)
                      ELSE 0
  IN [clicked |-> IF targetButton = 0 THEN <<>> ELSE <<targetButton>>,
      result |-> targetButton # 0]

\* safeExecuteScript(tab.id, switchToDeviceView, ..); the result is only logged.
\* First step of an iteration: its history starts here.
SwitchView ==
  /\ pc = "switch"
  /\ \/ \E a \in Failures :
          /\ IterationCatch(a.msg, <<Ev(deviceType, "switch", "threw")>>)
          /\ UNCHANGED <<elementInfo, dataUrl, elapsed, switchDom>>
     \/ \E page \in Pages :
          LET switchResult == switchToDeviceView(page, deviceType)
          IN /\ pc' = "switchWait"
             /\ log' = <<Ev(deviceType, "switch",
                            IF switchResult.result THEN "true" ELSE "false")>>
             /\ switchDom' = [elements |-> page,
                              clicked |-> switchResult.clicked]
             /\ UNCHANGED <<i, results, elementInfo, dataUrl, elapsed,
                            finished>>
  /\ UNCHANGED <<handler, scriptingAvailable, downloadsAvailable, tab,
                 pageDomain, thrown, downloads, notifications, runLog>>
  /\ UNCHANGED auxVars

\* Bug: desktop settles for the extra delay instead of the switch delay.
baseWaitTimeDesktopExtra(device) ==
  IF device = "desktop" THEN DESKTOP_EXTRA_WAIT_MS ELSE MOBILE_SWITCH_WAIT_MS

\* const baseWaitTime = deviceType === "desktop" ? .. : ..
baseWaitTime(device) ==
  IF device = "desktop" THEN DESKTOP_SWITCH_WAIT_MS ELSE MOBILE_SWITCH_WAIT_MS

\* await new Promise(resolve => setTimeout(resolve, baseWaitTime))
SwitchWait ==
  /\ pc = "switchWait"
  /\ pc' = "visible"
  /\ log' = Append(log, WaitEv(deviceType, "settle", baseWaitTime(deviceType)))
  /\ switchDom' = NoDom
  /\ UNCHANGED <<handler, scriptingAvailable, downloadsAvailable, tab,
                 pageDomain, i, results, elementInfo, dataUrl, elapsed, thrown,
                 downloads, notifications, finished, runLog>>
  /\ UNCHANGED auxVars

\* Bug: the Detector is not asked again after the wait.
AfterVisibleSkipsDetect(device) == "capture"

\* Where the iteration goes after the visibility wait returned.
AfterVisible(device) == IF device = "desktop" THEN "extraWait" ELSE "detect"

\* Bug: the wait gives up one interval early.
PollTimedOutEarly(t) ==
  t + VISIBILITY_CHECK_INTERVAL_MS > ELEMENT_VISIBILITY_TIMEOUT_MS

\* waitForElementVisible: elapsed > maxWaitTime
PollTimedOut(t) == t > ELEMENT_VISIBILITY_TIMEOUT_MS

\* safeExecuteScript(tab.id, waitForElementVisible, ..), one call of
\* checkVisibility per step: it resolves true when the target is visible,
\* false when the wait has timed out, and otherwise sets a timer for the next
\* call (the timer fires on time or one interval late).  The injection can
\* fail while it is pending, or come back without a result.  A false or
\* missing result is only warned about.
WaitVisible ==
  /\ pc = "visible"
  /\ \/ \E a \in Failures :
          /\ IterationCatch(a.msg,
                            Append(log, Ev(deviceType, "visible", "threw")))
          /\ elapsed' = 0
     \/ \E isVisible \in BOOLEAN :
          IF isVisible \/ PollTimedOut(elapsed)
            THEN /\ pc' = AfterVisible(deviceType)
                 /\ log' = Append(log, Ev(deviceType, "visible",
                                IF isVisible THEN "true" ELSE "false"))
                 /\ elapsed' = 0
                 /\ UNCHANGED <<i, results, finished>>
            ELSE /\ \E late \in {0, VISIBILITY_CHECK_INTERVAL_MS} :
                      elapsed' = elapsed + VISIBILITY_CHECK_INTERVAL_MS + late
                 /\ UNCHANGED <<pc, i, results, finished, log>>
     \/ /\ pc' = AfterVisible(deviceType)
        /\ log' = Append(log, Ev(deviceType, "visible", "none"))
        /\ elapsed' = 0
        /\ UNCHANGED <<i, results, finished>>
  /\ UNCHANGED <<handler, scriptingAvailable, downloadsAvailable, tab,
                 pageDomain, elementInfo, dataUrl, thrown, downloads,
                 notifications, runLog>>
  /\ UNCHANGED <<switchDom, auxVars>>

\* await new Promise(resolve => setTimeout(resolve, CONFIG.DESKTOP_EXTRA_WAIT_MS))
DesktopExtraWait ==
  /\ pc = "extraWait"
  /\ pc' = "detect"
  /\ log' = Append(log, WaitEv(deviceType, "extraWait", DESKTOP_EXTRA_WAIT_MS))
  /\ UNCHANGED <<handler, scriptingAvailable, downloadsAvailable, tab,
                 pageDomain, i, results, elementInfo, dataUrl, elapsed, thrown,
                 downloads, notifications, finished, runLog>>
  /\ UNCHANGED <<switchDom, auxVars>>

\* What getPerformanceScoreElement can hand back through the injection API:
\* no result at all, { found: false } or { found: true, .. }.
\* With found: true comes the deviceType read from the aria-labelledby of the
\* panel around the gauges: "desktop", "mobile" or "unknown".
ReportedDeviceTypes == {"mobile", "desktop", "unknown"}

ElementAnswers ==
  { [hasResult |-> FALSE, found |-> FALSE],
    [hasResult |-> TRUE,  found |-> FALSE] }
    \cup {[hasResult |-> TRUE, found |-> TRUE, deviceType |-> m] :
            m \in ReportedDeviceTypes}

\* Bug: the found flag of the result is not looked at.
ScoresNotFoundIgnoresFlag(r) == ~r.hasResult

\* !elementResults || !elementResults[0] || !elementResults[0].result ||
\* !elementResults[0].result.found
ScoresNotFound(r) == ~r.hasResult \/ ~r.found

\* History: what the Detector answered.
DetectEv(m, r) ==
  Ev(m, "detect", IF ~r.hasResult THEN "noresult"
                  ELSE IF r.found THEN "found" ELSE "notfound")

\* safeExecuteScript(tab.id, getPerformanceScoreElement, ..) and the check of
\* its result; `continue` leaves results alone.
Detect ==
  /\ pc = "detect"
  /\ \/ \E a \in Failures :
          /\ IterationCatch(a.msg,
                            Append(log, Ev(deviceType, "detect", "threw")))
          /\ UNCHANGED <<elementInfo, dataUrl, elapsed>>
     \/ \E r \in ElementAnswers :
          IF ScoresNotFound(r)
            THEN /\ log' = log \o <<DetectEv(deviceType, r),
                                    Ev(deviceType, "skipped", "")>>
                 /\ finished' = Append(finished,
                      [mode |-> deviceType, outcome |-> "skipped"])
                 /\ pc' = LoopNext(i)
                 /\ i' = i + 1
                 /\ UNCHANGED <<results, elementInfo, dataUrl, elapsed>>
            ELSE /\ log' = Append(log, DetectEv(deviceType, r))
                 /\ elementInfo' = [f \in DOMAIN r \ {"hasResult"} |-> r[f]]
                 /\ pc' = "capture"
                 /\ UNCHANGED <<i, results, dataUrl, elapsed, finished>>
  /\ UNCHANGED <<handler, scriptingAvailable, downloadsAvailable, tab,
                 pageDomain, thrown, downloads, notifications, runLog>>
  /\ UNCHANGED <<switchDom, auxVars>>

\* What chrome.tabs.captureVisibleTab can answer.
CaptureAnswers ==
  {[threw |-> TRUE, msg |-> m, len |-> 0] : m \in HostErrors}
    \cup {[threw |-> FALSE, msg |-> "", len |-> n] : n \in ImageLengths}

\* Bug: only a missing image counts as blank.
IsBlankOnlyMissing(len) == len = 0

\* !dataUrl || dataUrl.length < CONFIG.MIN_SCREENSHOT_SIZE_BYTES
IsBlank(len) == len = 0 \/ len < MIN_SCREENSHOT_SIZE_BYTES

\* First call of the capture API; a throw or a blank image goes to the inner
\* catch, which starts the backoff wait.
Capture ==
  /\ pc = "capture"
  /\ \E a \in CaptureAnswers :
       /\ log' = Append(log, CaptureEv(deviceType, a))
       /\ IF a.threw \/ IsBlank(a.len)
            THEN pc' = "retryWait" /\ UNCHANGED dataUrl
            ELSE pc' = "crop" /\ dataUrl' = a.len
  /\ UNCHANGED <<handler, scriptingAvailable, downloadsAvailable, tab,
                 pageDomain, i, results, elementInfo, elapsed, thrown,
                 downloads, notifications, finished, runLog>>
  /\ UNCHANGED <<switchDom, auxVars>>

\* Bug: the promise of the backoff wait is never resolved.
RetryWaitNeverResolves ==
  /\ pc = "retryWait"
  /\ UNCHANGED vars

\* await new Promise(resolve => setTimeout(resolve, CONFIG.SCREENSHOT_RETRY_WAIT_MS))
RetryWait ==
  /\ pc = "retryWait"
  /\ pc' = "captureRetry"
  /\ log' = Append(log, Ev(deviceType, "backoff", ""))
  /\ UNCHANGED <<handler, scriptingAvailable, downloadsAvailable, tab,
                 pageDomain, i, results, elementInfo, dataUrl, elapsed, thrown,
                 downloads, notifications, finished, runLog>>
  /\ UNCHANGED <<switchDom, auxVars>>

RetryFailedMessage(device) ==
  IF device = "mobile" THEN "Screenshot retry also failed for mobile"
  ELSE "Screenshot retry also failed for desktop"

\* Second call of the capture API, inside the inner catch: whatever fails
\* here is thrown to the iteration's catch.
CaptureRetry ==
  /\ pc = "captureRetry"
  /\ \E a \in CaptureAnswers :
       IF a.threw
         THEN /\ IterationCatch(a.msg, Append(log, CaptureEv(deviceType, a)))
              /\ UNCHANGED dataUrl
         ELSE IF IsBlank(a.len)
           THEN /\ IterationCatch(RetryFailedMessage(deviceType),
                                  Append(log, CaptureEv(deviceType, a)))
                /\ UNCHANGED dataUrl
           ELSE /\ log' = Append(log, CaptureEv(deviceType, a))
                /\ dataUrl' = a.len
                /\ pc' = "crop"
                /\ UNCHANGED <<i, results, finished>>
  /\ UNCHANGED <<handler, scriptingAvailable, downloadsAvailable, tab,
                 pageDomain, elementInfo, elapsed, thrown, downloads,
                 notifications, runLog>>
  /\ UNCHANGED <<switchDom, auxVars>>

CropFailedMessage(device) ==
  IF device = "mobile" THEN "Failed to crop mobile screenshot"
  ELSE "Failed to crop desktop screenshot"

\* Bug: a null answer of the Cropper is not noticed.
CropFailedNever(cropped) == FALSE

\* !cropResults || !cropResults[0] || !cropResults[0].result
CropFailed(cropped) == ~cropped

\* History: what the Cropper answered.
CropEv(m, cropped) == Ev(m, "crop", IF cropped THEN "image" ELSE "null")

\* safeExecuteScript(tab.id, cropScreenshotInPage, [dataUrl, elementInfo]);
\* cropped: the Cropper resolved with an image (not with null).
Crop ==
  /\ pc = "crop"
  /\ \/ \E a \in Failures :
          IterationCatch(a.msg, Append(log, Ev(deviceType, "crop", "threw")))
     \/ \E cropped \in BOOLEAN :
          IF CropFailed(cropped)
            THEN IterationCatch(CropFailedMessage(deviceType),
                                Append(log, CropEv(deviceType, cropped)))
            ELSE /\ log' = Append(log, CropEv(deviceType, cropped))
                 /\ pc' = "domain"
                 /\ UNCHANGED <<i, results, finished>>
  /\ UNCHANGED <<handler, scriptingAvailable, downloadsAvailable, tab,
                 pageDomain, elementInfo, dataUrl, elapsed, thrown, downloads,
                 notifications, runLog>>
  /\ UNCHANGED <<switchDom, auxVars>>

\* Bug: the url parameter is preferred to what the page yielded.
domainForParamFirst(extracted, t) ==
  IF t.param = "url" THEN t.hostname
  ELSE IF extracted # <<>> THEN extracted
  ELSE DefaultDomain

\* The domain used for the file name: the result of extractTestedDomain if it
\* is truthy, else the hostname of the url parameter of tab.url if that
\* parameter is present and parses (new URL throwing is caught), else the
\* initial "pagespeed-result".
domainFor(extracted, t) ==
  IF extracted # <<>> THEN extracted
  ELSE IF t.param = "url" THEN t.hostname
  ELSE DefaultDomain

DownloadUnavailableMessage ==
  "Cannot read properties of undefined (reading 'download')"

\* Bug: the file is named after the mode the Detector reported.
fileDeviceTypeReported(requested, info) == info.deviceType

\* ${deviceType} of the file name and the deviceType of the results entry:
\* the loop's own constant.
fileDeviceType(requested, info) == requested

\* safeExecuteScript(tab.id, extractTestedDomain) and everything up to the end
\* of the try block: the file name, chrome.downloads.download (not awaited)
\* and results.push({ deviceType, filename }).
NameAndDownload ==
  /\ pc = "domain"
  /\ \/ \E a \in Failures :
          /\ IterationCatch(a.msg,
                            Append(log, Ev(deviceType, "domain", "threw")))
          /\ UNCHANGED downloads
     \/ \E iso \in Timestamps :
          LET mode == fileDeviceType(deviceType, elementInfo)
              name == filename(domainFor(pageDomain, tab), mode, iso)
          IN  IF downloadsAvailable
                THEN /\ downloads' = Append(downloads,
                          [image |-> deviceType, filename |-> name,
                           iso |-> iso, state |-> "in_progress"])
                     /\ results' = Append(results,
                          [deviceType |-> mode, filename |-> name])
                     /\ log' = log \o <<Ev(deviceType, "domain", "ok"),
                                        Ev(deviceType, "download", "ok"),
                                        Ev(deviceType, "success", "")>>
                     /\ finished' = Append(finished,
                          [mode |-> deviceType, outcome |-> "success"])
                     /\ pc' = LoopNext(i)
                     /\ i' = i + 1
                ELSE /\ IterationCatch(DownloadUnavailableMessage,
                          log \o <<Ev(deviceType, "domain", "ok"),
                                   Ev(deviceType, "download", "threw")>>)
                     /\ UNCHANGED downloads
  /\ UNCHANGED <<handler, scriptingAvailable, downloadsAvailable, tab,
                 pageDomain, elementInfo, dataUrl, elapsed, thrown, notifications,
                 runLog>>
  /\ UNCHANGED <<switchDom, auxVars>>

\* The ways a dispatched download ends in the browser.
DownloadEnds == {"complete", "interrupted"}

\* The browser finishes or fails a dispatched download. The promise that
\* chrome.downloads.download returned was dropped, so no code of the extension
\* runs on either outcome.
DownloadSettles ==
  /\ \E k \in 1..Len(downloads), s \in DownloadEnds :
       /\ downloads[k].state = "in_progress"
       /\ downloads' = [downloads EXCEPT ![k].state = s]
  /\ UNCHANGED <<pc, handler, scriptingAvailable, downloadsAvailable, tab,
                 pageDomain, i, results, elementInfo, dataUrl, elapsed, thrown,
                 notifications, finished, log, runLog>>
  /\ UNCHANGED <<switchDom, auxVars>>

\* (r) => !r.error
NotError(r) == ~("error" \in DOMAIN r /\ r.error # "")

\* results.filter((r) => !r.error).length
successCount(res) == Cardinality({k \in 1..Len(res) : NotError(res[k])})

\* results.find((r) => !r.error)
successful(res) ==
  res[CHOOSE k \in 1..Len(res) :
        NotError(res[k]) /\ \A j \in 1..(k - 1) : ~NotError(res[j])]

\* s.charAt(0).toUpperCase() + s.slice(1)
Capitalize(s) == <<toUpperCase(s[1])>> \o Tail(s)

\* The text of the summary notification.
SummaryMessage(res) ==
  IF successCount(res) = 2
    THEN [kind |-> "both", mode |-> <<>>, detail |-> ""]
  ELSE IF successCount(res) = 1
    THEN [kind |-> "one",
          mode |-> Capitalize(ModeChars(successful(res).deviceType)),
          detail |-> "1 failed"]
  ELSE [kind |-> "none", mode |-> <<>>, detail |-> ""]

\* The summary after the loop: await safeExecuteScript(tab.id,
\* showNotification, [message, ..]); a failure goes to the listener's catch.
Summary ==
  /\ pc = "summary"
  /\ notifications' = Append(notifications, SummaryMessage(results))
  /\ \E a \in Failures \cup {Returned} :
       IF Threw(a)
         THEN /\ thrown' = a.msg
              /\ pc' = "errorNotify"
              /\ runLog' = Append(runLog, Ev("run", "summary", "threw"))
              /\ UNCHANGED handler
         ELSE /\ pc' = "done"
              /\ handler' = "resolved"
              /\ runLog' = Append(runLog, Ev("run", "summary", "ok"))
              /\ UNCHANGED thrown
  /\ UNCHANGED <<scriptingAvailable, downloadsAvailable, tab, pageDomain, i,
                 results, elementInfo, dataUrl, elapsed, downloads, finished, log>>
  /\ UNCHANGED <<switchDom, auxVars>>

Next ==
  \/ Click
  \/ GateNotify
  \/ ErrorNotify
  \/ SetViewport
  \/ ViewportWait
  \/ SwitchView
  \/ SwitchWait
  \/ WaitVisible
  \/ DesktopExtraWait
  \/ Detect
  \/ Capture
  \/ RetryWait
  \/ CaptureRetry
  \/ Crop
  \/ NameAndDownload
  \/ DownloadSettles
  \/ Summary

Spec == Init /\ [][Next]_vars

\* Every host call returns or fails and every timer fires: a step that is
\* possible is eventually taken.
FairSpec == Spec /\ WF_vars(Next)

(***************************************************************************)
(* Vocabulary of the properties                                            *)
(***************************************************************************)
IterationPcs ==
  {"switch", "switchWait", "visible", "extraWait", "detect", "capture",
   "retryWait", "captureRetry", "crop", "domain"}

\* The for loop of captureBothScreenshots has finished.
LoopDone == i > Len(deviceTypes)

\* The iteration for mode m has ended (in any way) / ended with outcome o.
Ended(m) == \E k \in 1..Len(finished) : finished[k].mode = m
EndedWith(m, o) ==
  \E k \in 1..Len(finished) : finished[k] = [mode |-> m, outcome |-> o]

\* The entries of results and the downloads made for mode m.
EntriesFor(m) == {k \in 1..Len(results) : results[k].deviceType = m}
DownloadsFor(m) == {k \in 1..Len(downloads) : downloads[k].image = m}

IsErrorEntry(r) == DOMAIN r = {"deviceType", "error"}
IsSuccessEntry(r) == DOMAIN r = {"deviceType", "filename"}

IsPrefix(a, b) == Len(a) <= Len(b) /\ SubSeq(b, 1, Len(a)) = a

\* The desktop iteration is the one running or about to run.
DesktopRunning == pc \in IterationPcs /\ i = 2 /\ deviceTypes[i] = "desktop"

(***************************************************************************)
(* C1: within one run the mobile iteration has ended (success, error or    *)
(* skipped) before the desktop iteration takes its first step; the two     *)
(* iterations never overlap and desktop never precedes mobile.             *)
(***************************************************************************)
C1_MobileBeforeDesktop ==
  /\ \A k \in 1..Len(log) : log[k].mode = log[1].mode
  /\ (pc \in IterationPcs /\ deviceType = "desktop") => Ended("mobile")
  /\ (log # <<>> /\ log[1].mode = "desktop") => Ended("mobile")
  /\ (pc \in IterationPcs /\ deviceType = "mobile") => finished = <<>>
  /\ \A k \in 1..Len(finished) :
       finished[k].mode = "desktop" =>
         \E j \in 1..(k - 1) : finished[j].mode = "mobile"

\* The desktop iteration has taken its first step.
C1_Witness ==
  /\ pc = "switchWait"
  /\ log = <<Ev("desktop", "switch", "true")>>
  /\ Ended("mobile")

(***************************************************************************)
(* C2: a fatal failure inside an iteration (a step throws, the Cropper     *)
(* yields null, the capture retry fails) appends exactly one error entry   *)
(* for that mode, dispatches no download for it, and the other mode's      *)
(* iteration still runs: after a failed mobile iteration the desktop       *)
(* iteration is executed to its end.                                       *)
(***************************************************************************)
\* The step at position k of the iteration's history is a fatal failure.
FatalAt(k) ==
  \/ log[k].ev \in {"switch", "visible", "detect", "crop", "domain", "download"}
       /\ log[k].out = "threw"
  \/ log[k].ev = "crop" /\ log[k].out = "null"
  \/ /\ log[k].ev = "capture"
     /\ \E j \in 1..(k - 1) : log[j].ev = "capture"
     /\ (log[k].out = "threw" \/ log[k].len < MIN_SCREENSHOT_SIZE_BYTES)

C2_FailureIsLocal ==
  /\ \A k \in 1..Len(log) :
       FatalAt(k) =>
         /\ Len(log) = k + 1
         /\ log[k + 1].ev = "error"
         /\ EndedWith(log[1].mode, "error")
  /\ \A m \in {"mobile", "desktop"} :
       EndedWith(m, "error") =>
         /\ Cardinality(EntriesFor(m)) = 1
         /\ \A k \in EntriesFor(m) : IsErrorEntry(results[k])
         /\ DownloadsFor(m) = {}
  /\ EndedWith("mobile", "error") => (DesktopRunning \/ Ended("desktop"))

\* Mobile failed at the Cropper and desktop was still captured and saved.
C2_Witness ==
  /\ finished = <<[mode |-> "mobile", outcome |-> "error"],
                  [mode |-> "desktop", outcome |-> "success"]>>
  /\ results[1].error = "Failed to crop mobile screenshot"
  /\ Len(downloads) = 1

(***************************************************************************)
(* C3: an iteration calls the capture API at most twice; the second call   *)
(* happens only after a first call that threw or returned fewer than       *)
(* MIN_SCREENSHOT_SIZE_BYTES, and only after the backoff wait; when the    *)
(* second call fails too the iteration ends with an error entry, without   *)
(* crop or download.                                                       *)
(***************************************************************************)
Captures == {k \in 1..Len(log) : log[k].ev = "capture"}
CaptureFailed(e) == e.out = "threw" \/ e.len < MIN_SCREENSHOT_SIZE_BYTES

C3_AtMostOneRetry ==
  /\ Cardinality(Captures) <= 2
  /\ \A k \in Captures :
       IF \E j \in Captures : j < k
         THEN \* the retry
              /\ k >= 3
              /\ log[k - 1].ev = "backoff"
              /\ log[k - 2].ev = "capture"
              /\ CaptureFailed(log[k - 2])
              /\ CaptureFailed(log[k]) =>
                   /\ Len(log) = k + 1
                   /\ log[k + 1].ev = "error"
                   /\ DownloadsFor(log[k].mode) = {}
                   /\ \A n \in EntriesFor(log[k].mode) : IsErrorEntry(results[n])
         ELSE \* the first attempt
              (CaptureFailed(log[k]) /\ Len(log) > k) => log[k + 1].ev = "backoff"
  /\ \A k \in 1..Len(log) :
       log[k].ev \in {"crop", "download"} =>
         \E j \in Captures :
           /\ j < k
           /\ ~CaptureFailed(log[j])
           /\ \A n \in Captures : n <= j

\* Both capture attempts of an iteration failed.
C3_Witness ==
  /\ Cardinality(Captures) = 2
  /\ \A k \in Captures : CaptureFailed(log[k])
  /\ log[Len(log)].ev = "error"

(***************************************************************************)
(* C4: after the loop exactly one summary notification is requested, and   *)
(* its text follows the number of iterations that dispatched a download:   *)
(* 2 -> "both", 1 -> the capitalised mode that succeeded, 0 -> "none"; an  *)
(* iteration that ended in an error never counts as a success, whatever    *)
(* its error message.                                                      *)
(***************************************************************************)
Summaries ==
  {k \in 1..Len(notifications) :
     notifications[k].kind \in {"both", "one", "none"}}

CapitalisedMode(m) ==
  IF m = "mobile" THEN <<"M","o","b","i","l","e">>
  ELSE <<"D","e","s","k","t","o","p">>

C4_SummaryCountsDownloads ==
  /\ Cardinality(Summaries) = IF LoopDone /\ pc # "summary" THEN 1 ELSE 0
  /\ \A k \in Summaries :
       /\ Len(downloads) = 2 => notifications[k].kind = "both"
       /\ Len(downloads) = 1 =>
            /\ notifications[k].kind = "one"
            /\ notifications[k].mode = CapitalisedMode(downloads[1].image)
       /\ Len(downloads) = 0 => notifications[k].kind = "none"

(***************************************************************************)
(* C5 (as stated): when the loop has finished, results holds exactly one   *)
(* entry per iteration, mobile then desktop, each {mode, filename} or      *)
(* {mode, errorMessage}, and entries are only ever appended.               *)
(***************************************************************************)
C5_OneEntryPerIteration ==
  /\ [](LoopDone =>
          /\ Len(results) = 2
          /\ results[1].deviceType = "mobile"
          /\ results[2].deviceType = "desktop"
          /\ \A k \in 1..Len(results) :
               IsSuccessEntry(results[k]) \/ IsErrorEntry(results[k]))
  /\ [][IsPrefix(results, results')]_vars

(***************************************************************************)
(* C5 (amended): results holds, in the order mobile then desktop, exactly  *)
(* one entry for every ended iteration that was not skipped and none for   *)
(* a skipped one; a successful iteration has a {mode, filename} entry, a   *)
(* failed one a {mode, errorMessage} entry; entries are only appended.     *)
(***************************************************************************)
NotSkipped(f) == f.outcome # "skipped"
Recorded == SelectSeq(finished, NotSkipped)

C5_EntriesMatchIterations ==
  /\ [](/\ Len(results) = Len(Recorded)
        /\ \A k \in 1..Len(results) :
             /\ results[k].deviceType = Recorded[k].mode
             /\ Recorded[k].outcome = "success" => IsSuccessEntry(results[k])
             /\ Recorded[k].outcome = "error" => IsErrorEntry(results[k])
        /\ \A k \in 1..Len(finished) : finished[k].mode = deviceTypes[k]
        /\ LoopDone => Len(finished) = 2)
  /\ [][IsPrefix(results, results')]_vars

\* The loop finished with mobile skipped and desktop recorded.
C5_Witness ==
  /\ LoopDone
  /\ EndedWith("mobile", "skipped")
  /\ Len(results) = 1
  /\ results[1].deviceType = "desktop"

(***************************************************************************)
(* C6: when the Detector reports found = false or returns no result, the   *)
(* iteration is skipped: no capture, crop or download for that mode, no    *)
(* entry (in particular no error entry) for it, and the loop goes on with  *)
(* the next mode.                                                          *)
(***************************************************************************)
C6_NotFoundSkips ==
  /\ \A k \in 1..Len(log) :
       (log[k].ev = "detect" /\ log[k].out \in {"notfound", "noresult"}) =>
         /\ Len(log) = k + 1
         /\ log[k + 1].ev = "skipped"
         /\ EndedWith(log[k].mode, "skipped")
         /\ pc \in IF log[k].mode = "mobile" THEN {"switch"}
                   ELSE {"summary", "errorNotify", "done"}
  /\ \A m \in {"mobile", "desktop"} :
       EndedWith(m, "skipped") =>
         /\ EntriesFor(m) = {}
         /\ DownloadsFor(m) = {}
  /\ EndedWith("mobile", "skipped") => (DesktopRunning \/ Ended("desktop"))

\* Mobile was skipped and desktop was then captured and saved.
C6_Witness ==
  /\ finished = <<[mode |-> "mobile", outcome |-> "skipped"],
                  [mode |-> "desktop", outcome |-> "success"]>>
  /\ Len(downloads) = 1

(***************************************************************************)
(* C7 (as stated): every click that does not end with both screenshots     *)
(* downloaded has requested at least one on-page notification by the time  *)
(* the click handler finishes.                                             *)
(***************************************************************************)
C7_NoSilentFailure ==
  (pc = "done" /\ Len(downloads) < 2) => notifications # <<>>

(***************************************************************************)
(* C7 (amended): every click made while the scripting API is available     *)
(* and that does not end with both screenshots downloaded has requested    *)
(* at least one on-page notification by the time the handler finishes.     *)
(***************************************************************************)
C7_NotifiedWhenScripting ==
  (pc = "done" /\ scriptingAvailable /\ Len(downloads) < 2)
    => notifications # <<>>

\* A click on a page that is not a PageSpeed Insights page has finished.
C7_Witness ==
  /\ pc = "done"
  /\ scriptingAvailable
  /\ ~UrlGatePassed(tab)
  /\ notifications = <<GateMessage>>

(***************************************************************************)
(* C8: an exception that escapes captureBothScreenshots is caught by the   *)
(* click handler, which requests exactly one error notification; a failure *)
(* of that notification is swallowed, so the handler never rejects; the    *)
(* downloads dispatched before are not undone.                             *)
(***************************************************************************)
\* An exception escaped captureBothScreenshots.
Escaped ==
  \E k \in 1..Len(runLog) :
    runLog[k].ev \in {"setViewport", "summary"} /\ runLog[k].out = "threw"

ErrorNotifications ==
  {k \in 1..Len(notifications) : notifications[k].kind = "error"}

\* What was dispatched, in order, whatever became of each download since.
Dispatches ==
  [k \in 1..Len(downloads) |->
     [image |-> downloads[k].image, filename |-> downloads[k].filename,
      iso |-> downloads[k].iso]]

C8_RunLevelCatch ==
  /\ [](/\ handler # "rejected"
        /\ pc = "done" =>
             /\ handler = "resolved"
             /\ Cardinality(ErrorNotifications) = IF Escaped THEN 1 ELSE 0
        /\ Escaped => pc \in {"errorNotify", "done"})
  /\ [][IsPrefix(Dispatches, Dispatches')]_vars

\* The summary failed after a download, and the error notification failed too.
C8_Witness ==
  /\ pc = "done"
  /\ Len(downloads) >= 1
  /\ runLog[Len(runLog)] = Ev("run", "errorNotify", "threw")
  /\ runLog[Len(runLog) - 1] = Ev("run", "summary", "threw")

(***************************************************************************)
(* C9: provided every host call returns or fails and every timer fires, a  *)
(* run started on a PageSpeed Insights page terminates, and when it has    *)
(* terminated the summary notification or the run-level error notification *)
(* has been requested.                                                     *)
(***************************************************************************)
RunStarted == pc = "setViewport"
RunNotified ==
  \E k \in 1..Len(notifications) :
    notifications[k].kind \in {"both", "one", "none", "error"}

C9_RunTerminates ==
  RunStarted ~> (pc = "done" /\ handler = "resolved" /\ RunNotified)

\* A run whose readiness poll timed out and that went through the capture
\* retry has terminated.
C9_Witness ==
  /\ pc = "done"
  /\ runLog # <<>>
  /\ runLog[1].ev = "setViewport"
  /\ RunNotified
  /\ \E k \in 1..Len(log) : log[k] = Ev("desktop", "visible", "false")
  /\ \E k \in 1..Len(log) : log[k].ev = "backoff"

(***************************************************************************)
(* C10: every file name handed to the download API is                      *)
(* "pagespeed-score-" + sanitized identifier + "-" + mode + "-" +          *)
(* timestamp + ".png", with the mode of the iteration and the ISO time     *)
(* with ":" and "." turned into "-" and cut to 19 characters               *)
(* (YYYY-MM-DDTHH-MM-SS).                                                  *)
(***************************************************************************)
ExpectedStamp(iso) ==
  [k \in 1..19 |-> IF iso[k] = ":" \/ iso[k] = "." THEN "-" ELSE iso[k]]

StampShape(t) ==
  /\ Len(t) = 19
  /\ \A k \in 1..19 :
       IF k \in {5, 8, 14, 17} THEN t[k] = "-"
       ELSE IF k = 11 THEN t[k] = "T"
       ELSE t[k] \in Digit

C10_FilenameForm ==
  \A k \in 1..Len(downloads) :
    LET d == downloads[k]
        id == cleanDomain(domainFor(pageDomain, tab))
    IN  /\ EndedWith(d.image, "success")
        /\ StampShape(ExpectedStamp(d.iso))
        /\ d.filename =
             <<"p","a","g","e","s","p","e","e","d","-",
               "s","c","o","r","e","-">>
             \o id \o <<"-">>
             \o (IF d.image = "mobile" THEN <<"m","o","b","i","l","e">>
                 ELSE <<"d","e","s","k","t","o","p">>)
             \o <<"-">> \o ExpectedStamp(d.iso) \o <<".","p","n","g">>
        /\ \E n \in EntriesFor(d.image) :
             results[n] = [deviceType |-> d.image, filename |-> d.filename]

\* Both files of a run were named and handed to the download API.
C10_Witness ==
  /\ Len(downloads) = 2
  /\ downloads[1].image = "mobile"
  /\ downloads[2].image = "desktop"

(***************************************************************************)
(* The identifier sanitization on its own: an identifier is drawn, cleaned *)
(* once and then cleaned again.                                            *)
(***************************************************************************)
MaxIdLen == 5
SanAlphabet == {"w", ".", "_", "-", "a", " "}
SanInputs == UNION {[1..n -> SanAlphabet] : n \in 0..MaxIdLen}

\* No click has happened: the state the functions are studied in.
MainAtRest ==
  /\ pc = "idle"
  /\ handler = "idle"
  /\ scriptingAvailable = TRUE
  /\ downloadsAvailable = TRUE
  /\ tab = [hasUrl |-> TRUE, psi |-> TRUE, param |-> "none", hostname |-> <<>>]
  /\ pageDomain = <<>>
  /\ i = 1
  /\ results = <<>>
  /\ elementInfo = [found |-> FALSE]
  /\ dataUrl = 0
  /\ elapsed = 0
  /\ thrown = ""
  /\ downloads = <<>>
  /\ notifications = <<>>
  /\ finished = <<>>
  /\ runLog = <<>>
  /\ log = <<>>
  /\ switchDom = NoDom

SanInit ==
  /\ MainAtRest
  /\ PageAtRest
  /\ crop = CropAtRest
  /\ poll = PollAtRest
  /\ runs = RunsAtRest
  /\ \E s \in SanInputs :
       san = [phase |-> "input", input |-> s, once |-> <<>>, twice |-> <<>>]

\* const cleanDomain = domain.replace(..)...
SanitizeOnce ==
  /\ san.phase = "input"
  /\ san' = [san EXCEPT !.phase = "once", !.once = cleanDomain(san.input)]
  /\ UNCHANGED <<mainVars, crop, poll, runs, pageVars>>

\* The same on the result.
SanitizeTwice ==
  /\ san.phase = "once"
  /\ san' = [san EXCEPT !.phase = "twice", !.twice = cleanDomain(san.once)]
  /\ UNCHANGED <<mainVars, crop, poll, runs, pageVars>>

SanNext ==
  \/ SanitizeOnce
  \/ SanitizeTwice

SanSpec == SanInit /\ [][SanNext]_vars

(***************************************************************************)
(* C11: for the identifier "example.com", mode mobile and the clock        *)
(* reading 2024-01-15T10:30:45.xxx the sanitized identifier is             *)
(* "example_com" and the file name is                                      *)
(* "pagespeed-score-example_com-mobile-2024-01-15T10-30-45.png".           *)
(***************************************************************************)
ExampleCom == <<"e","x","a","m","p","l","e",".","c","o","m">>
ExampleIso ==
  <<"2","0","2","4","-","0","1","-","1","5","T","1","0",":","3","0",":",
    "4","5",".","1","2","3","Z">>
ExampleName ==
  <<"p","a","g","e","s","p","e","e","d","-","s","c","o","r","e","-",
    "e","x","a","m","p","l","e","_","c","o","m","-",
    "m","o","b","i","l","e","-",
    "2","0","2","4","-","0","1","-","1","5","T","1","0","-","3","0","-",
    "4","5",".","p","n","g">>

C11_ExampleFilename ==
  \A k \in 1..Len(downloads) :
    (/\ pageDomain = ExampleCom
     /\ downloads[k].image = "mobile"
     /\ downloads[k].iso = ExampleIso)
      => downloads[k].filename = ExampleName

(***************************************************************************)
(* C12 (as stated): the sanitization is idempotent: applying it to its     *)
(* own result gives that result again, for every input.                    *)
(***************************************************************************)
C12_Idempotent ==
  san.phase = "twice" => san.twice = san.once

(***************************************************************************)
(* C12 (amended): applying the sanitization to its own result gives that   *)
(* result again exactly when the result does not begin with "www."; a      *)
(* result that begins with "www." loses that prefix the second time.       *)
(***************************************************************************)
BeginsWithWww(s) ==
  Len(s) >= 4 /\ s[1] = "w" /\ s[2] = "w" /\ s[3] = "w" /\ s[4] = "."

C12_IdempotentUnlessWww ==
  san.phase = "twice" =>
    /\ (san.twice = san.once) <=> ~BeginsWithWww(san.once)
    /\ BeginsWithWww(san.once) => Len(san.twice) < Len(san.once)

\* An identifier that the first pass changed was cleaned a second time.
C12_Witness ==
  /\ san.phase = "twice"
  /\ san.once # san.input
  /\ san.once # <<>>
  /\ san.twice = san.once

(***************************************************************************)
(* C13 (as stated): the sanitized identifier has only characters of        *)
(* [A-Za-z0-9._-], no two adjacent separators (".", "_" or "-") and no     *)
(* separator at its start or end.                                          *)
(***************************************************************************)
Separators == {".", "_", "-"}
OnlySafeChars(s) ==
  \A k \in 1..Len(s) : s[k] \in Lower \cup Upper \cup Digit \cup Separators

C13_NoSeparatorRuns ==
  san.phase = "once" =>
    /\ OnlySafeChars(san.once)
    /\ \A k \in 1..(Len(san.once) - 1) :
         ~(san.once[k] \in Separators /\ san.once[k + 1] \in Separators)
    /\ san.once # <<>> =>
         /\ san.once[1] \notin Separators
         /\ san.once[Len(san.once)] \notin Separators

(***************************************************************************)
(* C13 (amended): the sanitized identifier has only characters of          *)
(* [A-Za-z0-9._-], no two adjacent underscores and no underscore at its    *)
(* start or end; "." and "-" are kept wherever they stand.                 *)
(***************************************************************************)
C13_NoUnderscoreRuns ==
  san.phase = "once" =>
    /\ OnlySafeChars(san.once)
    /\ \A k \in 1..(Len(san.once) - 1) :
         ~(san.once[k] = "_" /\ san.once[k + 1] = "_")
    /\ san.once # <<>> =>
         /\ san.once[1] # "_"
         /\ san.once[Len(san.once)] # "_"

\* An identifier with special characters and underscores at its edges was
\* cleaned and kept a dot at its start.
C13_Witness ==
  /\ san.phase = "once"
  /\ san.input = <<"_", ".", " ", " ", "_">>
  /\ san.once = <<".">>

(***************************************************************************)
(* cropScreenshotInPage on its own.  Lengths are in quarters of a CSS      *)
(* pixel (getBoundingClientRect gives fractions), the pixel ratio is in    *)
(* quarters too, so their product is in sixteenths of a device pixel.      *)
(***************************************************************************)
RectOrigins == {0, 5, 40}
RectSizes == {1, 42, 400}
\* window.devicePixelRatio: 0 stands for a missing or zero value.
PixelRatios == {0, 4, 5, 8}

\* What getPerformanceScoreElement returns when found (no ratio in it).
ElementInfos ==
  {[found |-> TRUE, rect |-> [x |-> x, y |-> y, width |-> w, height |-> h],
    gaugeCount |-> 1, deviceType |-> "mobile"] :
     x \in RectOrigins, y \in RectOrigins, w \in RectSizes, h \in RectSizes}

NoCanvas == [width |-> 0, height |-> 0]
NoDraw == [sx |-> 0, sy |-> 0, sw |-> 0, sh |-> 0,
           dx |-> 0, dy |-> 0, dw |-> 0, dh |-> 0]

CropInit ==
  /\ MainAtRest
  /\ PageAtRest
  /\ san = SanAtRest
  /\ poll = PollAtRest
  /\ runs = RunsAtRest
  /\ \E info \in ElementInfos, ratio \in PixelRatios :
       crop = [phase |-> "called", elementInfo |-> info,
               devicePixelRatio |-> ratio, canvas |-> NoCanvas,
               draw |-> NoDraw, result |-> "pending"]

\* const dpr = window.devicePixelRatio || 1   (in quarters)
dpr(ratio) == IF ratio = 0 THEN 4 ELSE ratio

\* Bug: the surface is sized in CSS pixels, the ratio is forgotten.
CanvasSizeCssPixels(length, ratio) == length \div 4

\* canvas.width = rect.width * dpr: the attribute is an integer, the
\* product is truncated to whole device pixels.
CanvasSize(length, ratio) == (length * dpr(ratio)) \div 16

\* img.onload
ImgOnload ==
  /\ crop.phase = "called"
  /\ LET rect == crop.elementInfo.rect
         d == dpr(crop.devicePixelRatio)
     IN crop' = [crop EXCEPT
          !.phase = "resolved",
          !.canvas = [width |-> CanvasSize(rect.width, crop.devicePixelRatio),
                      height |-> CanvasSize(rect.height, crop.devicePixelRatio)],
          !.draw = [sx |-> rect.x * d, sy |-> rect.y * d,
                    sw |-> rect.width * d, sh |-> rect.height * d,
                    dx |-> 0, dy |-> 0,
                    dw |-> rect.width * d, dh |-> rect.height * d],
          !.result = "png"]
  /\ UNCHANGED <<mainVars, san, poll, runs, pageVars>>

\* img.onerror = () => resolve(null)
ImgOnerror ==
  /\ crop.phase = "called"
  /\ crop' = [crop EXCEPT !.phase = "resolved", !.result = "null"]
  /\ UNCHANGED <<mainVars, san, poll, runs, pageVars>>

CropNext ==
  \/ ImgOnload
  \/ ImgOnerror

CropSpec == CropInit /\ [][CropNext]_vars

Drawn == crop.phase = "resolved" /\ crop.result = "png"
PositiveRect ==
  crop.elementInfo.rect.width > 0 /\ crop.elementInfo.rect.height > 0

\* Source region at (x*dpr, y*dpr) of size (width*dpr, height*dpr), drawn
\* at the destination origin with the same size.
OneToOneAt(d) ==
  LET rect == crop.elementInfo.rect
  IN /\ crop.draw.sx = rect.x * d
     /\ crop.draw.sy = rect.y * d
     /\ crop.draw.sw = rect.width * d
     /\ crop.draw.sh = rect.height * d
     /\ crop.draw.dx = 0
     /\ crop.draw.dy = 0
     /\ crop.draw.dw = crop.draw.sw
     /\ crop.draw.dh = crop.draw.sh

(***************************************************************************)
(* C14 (as stated): for a rectangle of positive width and height the       *)
(* destination surface is rect.width*dpr wide and rect.height*dpr high,    *)
(* dpr being the ratio carried by the ElementInfo; the source region       *)
(* starts at (x*dpr, y*dpr), has that size and is drawn at the origin.     *)
(***************************************************************************)
C14_SurfaceIsRectTimesCarriedRatio ==
  (Drawn /\ PositiveRect) =>
    /\ "devicePixelRatio" \in DOMAIN crop.elementInfo
    /\ crop.canvas.width * 16 =
         crop.elementInfo.rect.width * crop.elementInfo.devicePixelRatio
    /\ crop.canvas.height * 16 =
         crop.elementInfo.rect.height * crop.elementInfo.devicePixelRatio
    /\ OneToOneAt(crop.elementInfo.devicePixelRatio)

(***************************************************************************)
(* C14 (amended): dpr is the window's ratio read when cropping (1 when it  *)
(* is missing or zero); the destination surface is rect.width*dpr by       *)
(* rect.height*dpr truncated to whole pixels; the source region starts at  *)
(* (x*dpr, y*dpr), is rect.width*dpr by rect.height*dpr and is drawn at    *)
(* the destination origin with the same size.                              *)
(***************************************************************************)
C14_SurfaceIsTruncatedRectTimesWindowRatio ==
  (Drawn /\ PositiveRect) =>
    LET d == IF crop.devicePixelRatio = 0 THEN 4 ELSE crop.devicePixelRatio
        rect == crop.elementInfo.rect
    IN /\ crop.canvas.width * 16 <= rect.width * d
       /\ rect.width * d < (crop.canvas.width + 1) * 16
       /\ crop.canvas.height * 16 <= rect.height * d
       /\ rect.height * d < (crop.canvas.height + 1) * 16
       /\ OneToOneAt(d)

\* A fractional rectangle was cropped at ratio 1.25: 10.5 x 100 CSS pixels
\* give a surface of 13 x 125 device pixels.
C14_Witness ==
  /\ Drawn
  /\ crop.devicePixelRatio = 5
  /\ crop.elementInfo.rect.width = 42
  /\ crop.elementInfo.rect.height = 400
  /\ crop.canvas = [width |-> 13, height |-> 125]

(***************************************************************************)
(* C15: a click on a tab whose URL is absent or does not contain           *)
(* "pagespeed.web.dev/" performs no viewport change, no mode switch, no    *)
(* capture, no crop and no download; the only thing the handler requests   *)
(* is the "only works on PageSpeed Insights" notification (it requests it  *)
(* whenever chrome.scripting is there to show it), and a failure of that   *)
(* notification is swallowed: the handler still resolves and no error      *)
(* notification follows.                                                   *)
(***************************************************************************)
WrongPage == ~tab.hasUrl \/ ~tab.psi

NoTarget == [present |-> FALSE, width |-> 0, height |-> 0,
             display |-> "none", visibility |-> "hidden"]

\* targetElement of one call: none, or a scores container with its
\* bounding rectangle and computed style.
Targets ==
  {NoTarget} \cup
  {[present |-> TRUE, width |-> w, height |-> h, display |-> d,
    visibility |-> v] :
     w \in {0, 24}, h \in {0, 24}, d \in {"none", "block"},
     v \in {"hidden", "visible"}}

\* if (targetElement) { .. const isVisible = .. }
isVisible(t) ==
  /\ t.present
  /\ t.width > 0
  /\ t.height > 0
  /\ t.display # "none"
  /\ t.visibility # "hidden"

PollInit ==
  /\ MainAtRest
  /\ PageAtRest
  /\ san = SanAtRest
  /\ crop = CropAtRest
  /\ runs = RunsAtRest
  /\ poll = [phase |-> "called", elapsed |-> 0, target |-> NoTarget,
             timers |-> 0, result |-> "pending"]

\* One call of checkVisibility at time now (since startTime) that finds t.
checkVisibility(t, now) ==
  IF isVisible(t)
    THEN [phase |-> "resolved", elapsed |-> now, target |-> t,
          timers |-> 0, result |-> "true"]
    ELSE IF PollTimedOut(now)
      THEN [phase |-> "resolved", elapsed |-> now, target |-> t,
            timers |-> 0, result |-> "false"]
      ELSE [phase |-> "timer", elapsed |-> now, target |-> t,
            timers |-> 1, result |-> "pending"]

\* checkVisibility() at the end of the promise executor.
FirstCheck ==
  /\ poll.phase = "called"
  /\ \E t \in Targets : poll' = checkVisibility(t, 0)
  /\ UNCHANGED <<mainVars, san, crop, runs, pageVars>>

\* setTimeout(checkVisibility, checkInterval) fires, on time or late.
TimerCheck ==
  /\ poll.phase = "timer"
  /\ poll.timers = 1
  /\ \E t \in Targets, late \in {0, VISIBILITY_CHECK_INTERVAL_MS} :
       poll' = checkVisibility(t, poll.elapsed + VISIBILITY_CHECK_INTERVAL_MS
                                    + late)
  /\ UNCHANGED <<mainVars, san, crop, runs, pageVars>>

PollNext ==
  \/ FirstCheck
  \/ TimerCheck

PollSpec == PollInit /\ [][PollNext]_vars

\* A timer that was set fires.
FairPollSpec == PollSpec /\ WF_vars(PollNext)

(***************************************************************************)
(* C16: waitForElementVisible always settles and never rejects.  It        *)
(* resolves true at the first poll that finds the target container with    *)
(* positive width and height, display other than none and visibility       *)
(* other than hidden; otherwise it resolves false at the first poll whose  *)
(* elapsed time exceeds maxWaitTime, never before; once resolved no poll   *)
(* is scheduled.                                                           *)
(***************************************************************************)
SeenVisible ==
  /\ poll.target.present
  /\ poll.target.width > 0 /\ poll.target.height > 0
  /\ poll.target.display # "none" /\ poll.target.visibility # "hidden"

PollShape ==
  /\ poll.result \in {"pending", "true", "false"}
  /\ poll.phase = "resolved" <=> poll.result # "pending"
  /\ poll.result = "true" <=> (poll.phase # "called" /\ SeenVisible)
  /\ poll.result = "false" =>
       poll.elapsed > ELEMENT_VISIBILITY_TIMEOUT_MS /\ ~SeenVisible
  /\ poll.phase = "timer" =>
       poll.elapsed <= ELEMENT_VISIBILITY_TIMEOUT_MS /\ ~SeenVisible
  /\ poll.phase = "resolved" => poll.timers = 0

C16_PollSettles ==
  /\ []PollShape
  /\ [][poll.phase = "resolved" => poll' = poll]_vars
  /\ (poll.phase = "called") ~> (poll.phase = "resolved")

\* The target never became visible and the wait resolved false at the first
\* poll past 10000 ms.
C16_Witness ==
  /\ poll.phase = "resolved"
  /\ poll.result = "false"
  /\ poll.elapsed = 10050
  /\ poll.target.present /\ poll.target.display = "none"

(***************************************************************************)
(* Several clicks on one PageSpeed tab.  Every click starts the listener   *)
(* anew; each run is at one of its awaits and the event loop resumes any   *)
(* of them.  Host calls succeed here: the runs go their full length.       *)
(***************************************************************************)
MaxClicks == 2

ClickInit ==
  /\ MainAtRest
  /\ PageAtRest
  /\ san = SanAtRest
  /\ crop = CropAtRest
  /\ poll = PollAtRest
  /\ runs = [phase |-> "open", pc |-> <<>>, i |-> <<>>, downloads |-> <<>>]

RunIds == 1..Len(runs.pc)
RunDevice(r) == deviceTypes[runs.i[r]]

\* chrome.action.onClicked fires: the listener runs up to the first await
\* of captureBothScreenshots; nothing looks at the runs already under way.
ClickArrives ==
  /\ runs.phase = "open"
  /\ Len(runs.pc) < MaxClicks
  /\ runs' = [runs EXCEPT !.pc = Append(@, "setViewport"), !.i = Append(@, 1),
                           !.downloads = Append(@, 0)]
  /\ UNCHANGED <<mainVars, san, crop, poll, pageVars>>

\* Run r resumes at await `from` and stops at await `to`.
Resume(r, from, to) ==
  /\ runs.pc[r] = from
  /\ runs' = [runs EXCEPT !.pc[r] = to]
  /\ UNCHANGED <<mainVars, san, crop, poll, pageVars>>

\* for (let i = 0; ..; i++): the next iteration, or the summary; n files
\* were sent to chrome.downloads.download in the iteration that ends.
RunLoopNext(r, n) ==
  /\ runs' = [runs EXCEPT
       !.pc[r] = IF runs.i[r] < Len(deviceTypes) THEN "switch" ELSE "summary",
       !.i[r] = IF runs.i[r] < Len(deviceTypes) THEN @ + 1 ELSE @,
       !.downloads[r] = @ + n]
  /\ UNCHANGED <<mainVars, san, crop, poll, pageVars>>

RunSetViewport(r) == Resume(r, "setViewport", "viewportWait")
RunViewportWait(r) == Resume(r, "viewportWait", "switch")
RunSwitchView(r) == Resume(r, "switch", "switchWait")
RunSwitchWait(r) == Resume(r, "switchWait", "visible")
RunWaitVisible(r) == Resume(r, "visible", AfterVisible(RunDevice(r)))
RunDesktopExtraWait(r) == Resume(r, "extraWait", "detect")
RunDetect(r) ==
  /\ runs.pc[r] = "detect"
  /\ \/ Resume(r, "detect", "capture")
     \/ RunLoopNext(r, 0)
RunCapture(r) == Resume(r, "capture", "crop")
RunCrop(r) == Resume(r, "crop", "download")
RunNameAndDownload(r) == runs.pc[r] = "download" /\ RunLoopNext(r, 1)
RunSummary(r) == Resume(r, "summary", "done")

ClickNext ==
  \/ ClickArrives
  \/ \E r \in RunIds : RunSetViewport(r)
  \/ \E r \in RunIds : RunViewportWait(r)
  \/ \E r \in RunIds : RunSwitchView(r)
  \/ \E r \in RunIds : RunSwitchWait(r)
  \/ \E r \in RunIds : RunWaitVisible(r)
  \/ \E r \in RunIds : RunDesktopExtraWait(r)
  \/ \E r \in RunIds : RunDetect(r)
  \/ \E r \in RunIds : RunCapture(r)
  \/ \E r \in RunIds : RunCrop(r)
  \/ \E r \in RunIds : RunNameAndDownload(r)
  \/ \E r \in RunIds : RunSummary(r)

ClickSpec == ClickInit /\ [][ClickNext]_vars

(***************************************************************************)
(* C17: no two operations on the same tab run in parallel: whatever the    *)
(* clicks, no switch, capture or crop step of one run is executed between  *)
(* the switch step and the capture step of an iteration of another run.    *)
(***************************************************************************)
\* Run r has switched the view and not yet captured it.
BetweenSwitchAndCapture(r) ==
  runs.pc[r] \in {"switchWait", "visible", "extraWait", "detect", "capture"}

\* This step is the switch, capture or crop step of run q.
SwitchCaptureOrCropOf(q) ==
  /\ runs.pc[q] \in {"switch", "capture", "crop"}
  /\ runs'.pc[q] # runs.pc[q]

C17_NoInterleavedOperation ==
  [][\A q \in RunIds : \A r \in RunIds \ {q} :
       SwitchCaptureOrCropOf(q) => ~BetweenSwitchAndCapture(r)]_vars

(***************************************************************************)
(* C18: a readiness timeout is not fatal: after waitForElementVisible      *)
(* resolved false (or came back without a result) the iteration goes on    *)
(* (through the extra wait, for desktop) to the Detector, and when the     *)
(* Detector reports found it goes on to the capture; the timeout alone     *)
(* records no error entry.                                                 *)
(***************************************************************************)
NotReady(e) == e.ev = "visible" /\ e.out \in {"false", "none"}

\* The event at position k of the iteration's history is followed by step
\* ev: either ev is the next event, or ev is the step about to be taken.
FollowedBy(k, ev) ==
  IF k < Len(log) THEN log[k + 1].ev = ev ELSE pc = ev

C18_TimeoutNotFatal ==
  /\ \A k \in 1..Len(log) :
       NotReady(log[k]) =>
         /\ ~Ended(log[k].mode) => pc \in IterationPcs
         /\ IF log[k].mode = "desktop"
              THEN /\ FollowedBy(k, "extraWait")
                   /\ k < Len(log) => FollowedBy(k + 1, "detect")
              ELSE FollowedBy(k, "detect")
  /\ (\E k \in 1..Len(log) : NotReady(log[k])) =>
       \A j \in 1..Len(log) :
         /\ (log[j].ev = "detect" /\ log[j].out = "found") =>
              FollowedBy(j, "capture")
         /\ log[j].ev = "error" =>
              /\ j > 1
              /\ ~NotReady(log[j - 1])
              /\ log[j - 1].ev # "extraWait"

\* The desktop wait timed out and the desktop screenshot was still captured,
\* cropped and downloaded.
C18_Witness ==
  /\ \E k \in 1..Len(log) : log[k] = Ev("desktop", "visible", "false")
  /\ EndedWith("desktop", "success")
  /\ DownloadsFor("desktop") # {}
  /\ \A k \in 1..Len(results) : IsSuccessEntry(results[k])

(***************************************************************************)
(* C19: switchToDeviceView clicks at most one element per call and returns *)
(* true exactly when it clicked one; when nothing on the page matches it   *)
(* clicks nothing and returns false.  The orchestrator does not look at    *)
(* the returned value: the settle delay follows in either case, and from   *)
(* there the readiness poll, detection and capture.                        *)
(***************************************************************************)
\* Element e is one the search for device type m can pick.
Matching(e, m) ==
  \/ specificButton(e, ModeChars(m))
  \/ /\ e.tag = "button" \/ e.role \in {"tab", "button"}
     /\ buttonMatches(e, ModeChars(m))

SwitchShape ==
  /\ Len(switchDom.clicked) <= 1
  /\ pc # "switchWait" => switchDom = NoDom
  /\ pc = "switchWait" =>
       /\ log[1].ev = "switch"
       /\ log[1].out = "true" <=> Len(switchDom.clicked) = 1
       /\ log[1].out = "false" <=> switchDom.clicked = <<>>
       /\ \A k \in 1..Len(switchDom.clicked) :
            /\ switchDom.clicked[k] \in 1..Len(switchDom.elements)
            /\ Matching(switchDom.elements[switchDom.clicked[k]], log[1].mode)
       /\ (\A k \in 1..Len(switchDom.elements) :
             ~Matching(switchDom.elements[k], log[1].mode))
            <=> switchDom.clicked = <<>>

\* Whatever was returned, the step of the run after the switch is the settle
\* delay and leads to the readiness poll; nothing is recorded. (A download of
\* the iteration before may end in the browser meanwhile.)
SwitchResultIgnored ==
  (pc = "switchWait" /\ downloads' = downloads) =>
    /\ log[1].out \in {"true", "false"}
    /\ pc' = "visible"
    /\ Len(log') = Len(log) + 1
    /\ SubSeq(log', 1, Len(log)) = log
    /\ log'[Len(log')].ev = "settle"
    /\ log'[Len(log')].mode = log[1].mode
    /\ results' = results
    /\ finished' = finished
    /\ i' = i

SwitchContinues ==
  (log # <<>> /\ log[1].ev = "switch" /\ log[1].out \in {"true", "false"}) =>
    /\ Len(log) >= 2 => log[2].ev = "settle"
    /\ Len(log) >= 3 => log[3].ev = "visible"
    /\ \A k \in 1..Len(log) :
         (log[k].ev = "detect" /\ log[k].out = "found") =>
           FollowedBy(k, "capture")

C19_SwitchSoftFailure ==
  /\ []SwitchShape
  /\ []SwitchContinues
  /\ [][SwitchResultIgnored]_vars

\* No control for desktop was on the page, nothing was clicked, and the
\* desktop screenshot was still captured and saved.
C19_Witness ==
  /\ log # <<>>
  /\ log[1] = Ev("desktop", "switch", "false")
  /\ EndedWith("desktop", "success")
  /\ DownloadsFor("desktop") # {}

(***************************************************************************)
(* C20: viewport normalization is best-effort: when the step fails (the    *)
(* resize is refused, or the injected setViewportSize call itself fails)   *)
(* the failure is only logged and the mobile and desktop iterations still  *)
(* run.                                                                    *)
(***************************************************************************)
ViewportStepFailed ==
  \E k \in 1..Len(runLog) :
    runLog[k].ev = "setViewport" /\ runLog[k].out = "threw"

C20_ViewportBestEffort ==
  ViewportStepFailed =>
    /\ pc # "errorNotify"
    /\ \A k \in 1..Len(notifications) : notifications[k].kind # "error"
    /\ pc = "done" => (Ended("mobile") /\ Ended("desktop"))

(***************************************************************************)
(* C21 (as stated): the settle delay after the switch to desktop is        *)
(* strictly longer than the one after the switch to mobile, and the        *)
(* additional fixed delay before detection is taken in the desktop         *)
(* iteration only.                                                         *)
(***************************************************************************)
ExtraWaitDesktopOnly ==
  /\ \A k \in 1..Len(log) : log[k].ev = "extraWait" => log[k].mode = "desktop"
  /\ \A k \in 1..Len(log) :
       (log[k].ev = "detect" /\ k > 1) =>
         (log[k - 1].ev = "extraWait" <=> log[k].mode = "desktop")
  /\ pc = "extraWait" => deviceType = "desktop"

C21_DesktopSettlesLonger ==
  /\ \A k \in 1..Len(log) :
       log[k].ev = "settle" =>
         IF log[k].mode = "desktop"
           THEN log[k].len > MOBILE_SWITCH_WAIT_MS
           ELSE log[k].len < DESKTOP_SWITCH_WAIT_MS
  /\ ExtraWaitDesktopOnly

(***************************************************************************)
(* C21 (amended): the settle delay after the switch is the same 500 ms in  *)
(* both iterations; the additional fixed delay of 1000 ms before detection *)
(* is taken in the desktop iteration only, so only the sum of the fixed    *)
(* delays before detection is longer for desktop (1500 ms against 500 ms). *)
(***************************************************************************)
RECURSIVE FixedDelay(_)
\* The sum of the fixed delays in a history.
FixedDelay(h) ==
  IF h = <<>> THEN 0
  ELSE (IF h[1].ev \in {"settle", "extraWait"} THEN h[1].len ELSE 0)
         + FixedDelay(Tail(h))

C21_SameSettleExtraForDesktop ==
  /\ \A k \in 1..Len(log) : log[k].ev = "settle" => log[k].len = 500
  /\ \A k \in 1..Len(log) : log[k].ev = "extraWait" => log[k].len = 1000
  /\ ExtraWaitDesktopOnly
  /\ \A k \in 1..Len(log) :
       log[k].ev = "detect" =>
         FixedDelay(SubSeq(log, 1, k)) =
           IF log[k].mode = "desktop" THEN 1500 ELSE 500

\* The desktop iteration has waited 500 ms and 1000 ms and asked the Detector.
C21_Witness ==
  /\ Len(log) >= 5
  /\ log[2] = WaitEv("desktop", "settle", 500)
  /\ log[4] = WaitEv("desktop", "extraWait", 1000)
  /\ log[5].ev = "detect"
  /\ Ended("mobile")

(***************************************************************************)
(* The sources of the tested domain on their own: extractTestedDomain runs *)
(* on a page, then captureBothScreenshots falls back to the url parameter. *)
(* What the selector stage and the title stage find is given as such       *)
(* (<<>>: nothing); the body stage filters the matches of its pattern.     *)
(***************************************************************************)
SelectorDomain == <<"s","s",".","i","o">>
TitleDomain == <<"t","t",".","i","o">>
BodyMatches ==
  { <<"w","e","b",".","d","e","v">>,
    <<"w","w","w",".","c",".","i","o">>,
    <<"b",".","i","o">>,
    <<"b","b",".","i","o">> }
MaxBodyMatches == 2

\* tab.url's query parameter: absent, not parseable, or parseable with the
\* given hostname (which new URL leaves empty for some schemes).
UrlParams ==
  { [param |-> "none", hostname |-> <<>>],
    [param |-> "invalid", hostname |-> <<>>],
    [param |-> "url", hostname |-> <<"u","u",".","i","o">>],
    [param |-> "url", hostname |-> <<>>] }

DomInit ==
  /\ MainAtRest
  /\ FunAtRest
  /\ det = DetAtRest /\ doc = DocAtRest /\ hl = HlAtRest /\ wfr = WfrAtRest
  /\ \E sel \in {<<>>, SelectorDomain}, title \in {<<>>, TitleDomain},
        body \in UNION {[1..n -> BodyMatches] : n \in 0..MaxBodyMatches},
        url \in UrlParams :
       dom = [phase |-> "page", selectors |-> sel, title |-> title,
              body |-> body, url |-> url, extracted |-> <<>>,
              domain |-> <<>>]

\* The filter on the matches of the body text.
NotNoise(match) ==
  /\ ~includes(match, <<"p","a","g","e","s","p","e","e","d",".","w","e","b",
                        ".","d","e","v">>)
  /\ ~includes(match, <<"g","o","o","g","l","e",".","c","o","m">>)
  /\ ~includes(match, <<"w","e","b",".","d","e","v">>)
  /\ Len(match) > 4
  /\ ~(Len(match) >= 4 /\ SubSeq(match, 1, 4) = <<"w","w","w",".">>)

\* extractTestedDomain: selectors, then the title, then the body text
\* (<<>>: null).
extractTestedDomain(pg) ==
  IF pg.selectors # <<>> THEN pg.selectors
  ELSE IF pg.title # <<>> THEN StripWww(pg.title)
  ELSE LET filtered == SelectSeq(pg.body, NotNoise)
       IN IF filtered # <<>> THEN StripWww(filtered[1]) ELSE <<>>

\* const domainResults = await safeExecuteScript(tab.id, extractTestedDomain):
\* its result, or no result at all.
ExtractTestedDomain ==
  /\ dom.phase = "page"
  /\ \E hasResult \in BOOLEAN :
       dom' = [dom EXCEPT !.phase = "extracted",
                 !.extracted = IF hasResult THEN extractTestedDomain(dom)
                               ELSE <<>>]
  /\ UNCHANGED <<mainVars, funVars, det, doc, hl, wfr>>

\* let domain = "pagespeed-result"; if (..) domain = ..result; else { url
\* parameter }
DomainFallback ==
  /\ dom.phase = "extracted"
  /\ dom' = [dom EXCEPT !.phase = "named",
               !.domain = domainFor(dom.extracted, dom.url)]
  /\ UNCHANGED <<mainVars, funVars, det, doc, hl, wfr>>

DomNext ==
  \/ ExtractTestedDomain
  \/ DomainFallback

DomSpec == DomInit /\ [][DomNext]_vars

\* What each source yields on the page (<<>>: nothing).
FromSelectors == dom.selectors
FromTitle == dom.title
FromBody ==
  LET kept == {k \in 1..Len(dom.body) : NotNoise(dom.body[k])}
  IN IF kept = {} THEN <<>> ELSE dom.body[First(kept)]
FromUrlParam == IF dom.url.param = "url" THEN dom.url.hostname ELSE <<>>

\* The first of the sources, in the given order, that yields something.
FirstYield(sources) ==
  LET yielding == {k \in 1..Len(sources) : sources[k] # <<>>}
  IN IF yielding = {} THEN <<>> ELSE sources[First(yielding)]

\* extractTestedDomain returned its result (the injection did not come back
\* empty-handed).
PageWasRead ==
  dom.phase = "named" /\ dom.extracted = FirstYield(<<FromSelectors, FromTitle, FromBody>>)

(***************************************************************************)
(* C22 (as stated): the identifier is the yield of the first source that   *)
(* yields one, in the order selectors, url parameter, title, body text;    *)
(* when no source yields anything it is "pagespeed-result".                *)
(***************************************************************************)
C22_UrlParamSecond ==
  PageWasRead =>
    LET y == FirstYield(<<FromSelectors, FromUrlParam, FromTitle, FromBody>>)
    IN dom.domain = IF y = <<>> THEN DefaultDomain ELSE y

(***************************************************************************)
(* C22 (amended): the identifier is the yield of the first source that     *)
(* yields one, in the order selectors, title, body text (noise excluded),  *)
(* url parameter; when none of the first three yields anything, it is the  *)
(* hostname of the url parameter if that parameter is present and parses   *)
(* (even when that hostname is empty), and "pagespeed-result" otherwise.   *)
(***************************************************************************)
C22_UrlParamLast ==
  PageWasRead =>
    LET y == FirstYield(<<FromSelectors, FromTitle, FromBody>>)
    IN dom.domain = IF y # <<>> THEN y
                    ELSE IF dom.url.param = "url" THEN dom.url.hostname
                    ELSE DefaultDomain

\* Title and url parameter both yield, the selectors do not: the title wins.
C22_Witness ==
  /\ dom.phase = "named"
  /\ dom.selectors = <<>>
  /\ dom.title = TitleDomain
  /\ dom.url.param = "url" /\ dom.url.hostname # <<>>
  /\ dom.domain = TitleDomain

(***************************************************************************)
(* getPerformanceScoreElement's rectangle on its own: the gauges of the    *)
(* gauge container (their client rectangles, in document order), the       *)
(* container's rectangle and the window's inner size, in whole pixels.     *)
(***************************************************************************)
TIGHT_PADDING_PX == 5
FALLBACK_PADDING_PX == 10
MaxGauges == 2

\* gauge.getBoundingClientRect(): left, top, width, height (right and bottom
\* follow); a rectangle can start left of or above the viewport and can be
\* empty.
GaugeRects ==
  {[left |-> l, top |-> t, width |-> w, height |-> h] :
     l \in {-8, 3, 40}, t \in {-8, 2}, w \in {0, 10}, h \in {0, 10}}

NoContainer == [present |-> FALSE, x |-> 0, y |-> 0, width |-> 0, height |-> 0]
\* gaugeContainer.getBoundingClientRect(), or no scores element at all.
Containers ==
  {NoContainer} \cup
  {[present |-> TRUE, x |-> x, y |-> y, width |-> w, height |-> h] :
     x \in {-4, 95}, y \in {0}, w \in {0, 30, 90}, h \in {0, 30}}

\* window.innerWidth, window.innerHeight
Viewports == {[innerWidth |-> 100, innerHeight |-> 80]}

DetInit ==
  /\ MainAtRest
  /\ FunAtRest
  /\ dom = DomAtRest /\ doc = DocAtRest /\ hl = HlAtRest /\ wfr = WfrAtRest
  /\ \E gauges \in UNION {[1..n -> GaugeRects] : n \in 0..MaxGauges},
        container \in Containers, viewport \in Viewports :
       det = [phase |-> "page", allGauges |-> gauges,
              container |-> container, viewport |-> viewport,
              result |-> [found |-> FALSE]]

Min(S) == CHOOSE a \in S : \A b \in S : a <= b
Max(S) == CHOOSE a \in S : \A b \in S : a >= b
Max2(a, b) == IF a >= b THEN a ELSE b
Min2(a, b) == IF a <= b THEN a ELSE b

\* Bug: empty gauges enter the minimum and maximum too.
SizedOrNot(gauges) == 1..Len(gauges)

\* if (gaugeRect.width > 0 && gaugeRect.height > 0): the gauges that enter
\* the minimum and maximum.
Sized(gauges) ==
  {k \in 1..Len(gauges) : gauges[k].width > 0 /\ gauges[k].height > 0}

\* Bug: the origin is not clamped.
tightRectUnclamped(gauges, padding) ==
  LET minX == Min({gauges[k].left : k \in Sized(gauges)})
      maxX == Max({gauges[k].left + gauges[k].width : k \in Sized(gauges)})
      minY == Min({gauges[k].top : k \in Sized(gauges)})
      maxY == Max({gauges[k].top + gauges[k].height : k \in Sized(gauges)})
  IN [x |-> minX - padding, y |-> minY - padding,
      width |-> maxX - minX + padding * 2,
      height |-> maxY - minY + padding * 2]

\* finalRect of the tight branch, for at least one gauge of positive size.
tightRect(gauges, padding) ==
  LET minX == Min({gauges[k].left : k \in Sized(gauges)})
      maxX == Max({gauges[k].left + gauges[k].width : k \in Sized(gauges)})
      minY == Min({gauges[k].top : k \in Sized(gauges)})
      maxY == Max({gauges[k].top + gauges[k].height : k \in Sized(gauges)})
  IN [x |-> Max2(0, minX - padding), y |-> Max2(0, minY - padding),
      width |-> maxX - minX + padding * 2,
      height |-> maxY - minY + padding * 2]

\* Bug: the size is not limited to the window's inner size.
fallbackRectUnlimited(rect, padding, viewport) ==
  [x |-> Max2(0, rect.x - padding), y |-> Max2(0, rect.y - padding),
   width |-> rect.width + padding * 2, height |-> rect.height + padding * 2]

\* finalRect of the fallback branch.
fallbackRect(rect, padding, viewport) ==
  [x |-> Max2(0, rect.x - padding), y |-> Max2(0, rect.y - padding),
   width |-> Min2(viewport.innerWidth, rect.width + padding * 2),
   height |-> Min2(viewport.innerHeight, rect.height + padding * 2)]

Found(rect, gauges) ==
  [found |-> TRUE, rect |-> rect, gaugeCount |-> Len(gauges),
   deviceType |-> "unknown"]

\* getPerformanceScoreElement from `if (scoresElement)` on.  With gauges that
\* are all empty the minimum stays Infinity and the maximum -Infinity: the
\* width is -Infinity and the test finalRect.width > 0 fails.
getPerformanceScoreElement(pg) ==
  IF ~pg.container.present THEN [found |-> FALSE]
  ELSE IF Len(pg.allGauges) > 0
    THEN IF Sized(pg.allGauges) = {} THEN [found |-> FALSE]
         ELSE LET finalRect == tightRect(pg.allGauges, TIGHT_PADDING_PX)
              IN IF finalRect.width > 0 /\ finalRect.height > 0
                   THEN Found(finalRect, pg.allGauges)
                   ELSE [found |-> FALSE]
    ELSE LET finalRect == fallbackRect(pg.container, FALLBACK_PADDING_PX,
                                       pg.viewport)
         IN IF finalRect.width > 0 /\ finalRect.height > 0
              THEN Found(finalRect, pg.allGauges)
              ELSE [found |-> FALSE]

\* safeExecuteScript(tab.id, getPerformanceScoreElement, [5, 10])
GetPerformanceScoreElement ==
  /\ det.phase = "page"
  /\ det' = [det EXCEPT !.phase = "returned",
               !.result = getPerformanceScoreElement(det)]
  /\ UNCHANGED <<mainVars, funVars, dom, doc, hl, wfr>>

DetNext == GetPerformanceScoreElement

DetSpec == DetInit /\ [][DetNext]_vars

DetFound == det.phase = "returned" /\ det.result.found

(***************************************************************************)
(* C23: every ElementInfo with found = true has rect.x >= 0, rect.y >= 0,  *)
(* rect.width > 0 and rect.height > 0, whatever the layout (negative       *)
(* coordinates, empty gauges or containers, all gauges empty); when the    *)
(* computed rectangle would not have positive width and height the         *)
(* Detector returns found = false.                                         *)
(***************************************************************************)
C23_FoundRectIsPositive ==
  /\ DetFound =>
       /\ det.result.rect.x >= 0
       /\ det.result.rect.y >= 0
       /\ det.result.rect.width > 0
       /\ det.result.rect.height > 0
  /\ (det.phase = "returned" /\ det.container.present) =>
       /\ (det.allGauges # <<>> /\
             \A k \in 1..Len(det.allGauges) :
               det.allGauges[k].width = 0 \/ det.allGauges[k].height = 0)
            => ~det.result.found
       /\ (det.allGauges # <<>> /\
             \E k \in 1..Len(det.allGauges) :
               det.allGauges[k].width > 0 /\ det.allGauges[k].height > 0)
            => det.result.found

\* A gauge that starts left of and above the viewport was found: the origin
\* is clamped to 0.
C23_Witness ==
  /\ DetFound
  /\ Len(det.allGauges) = 1
  /\ det.allGauges[1].left = -8 /\ det.allGauges[1].top = -8
  /\ det.result.rect = [x |-> 0, y |-> 0, width |-> 20, height |-> 20]

(***************************************************************************)
(* C24 (as stated): with one or more gauges found the returned rect is     *)
(* x = max(0, minLeft - p), y = max(0, minTop - p),                        *)
(* width = maxRight - minLeft + 2p, height = maxBottom - minTop + 2p, the  *)
(* minimum and maximum ranging over every gauge found, and the rect        *)
(* contains every gauge's rectangle.                                       *)
(***************************************************************************)
TightCase == DetFound /\ det.allGauges # <<>>

\* The rect of the claim for the gauges at the positions in G.
BoxOf(G) ==
  LET L == Min({det.allGauges[k].left : k \in G})
      R == Max({det.allGauges[k].left + det.allGauges[k].width : k \in G})
      T == Min({det.allGauges[k].top : k \in G})
      B == Max({det.allGauges[k].top + det.allGauges[k].height : k \in G})
  IN [x |-> IF L - 5 > 0 THEN L - 5 ELSE 0,
      y |-> IF T - 5 > 0 THEN T - 5 ELSE 0,
      width |-> R - L + 10, height |-> B - T + 10]

\* Rectangle r contains the gauge g.
Contains(r, g) ==
  /\ r.x <= g.left
  /\ r.y <= g.top
  /\ g.left + g.width <= r.x + r.width
  /\ g.top + g.height <= r.y + r.height

C24_BoxOfAllGauges ==
  TightCase =>
    /\ det.result.rect = BoxOf(1..Len(det.allGauges))
    /\ \A k \in 1..Len(det.allGauges) :
         Contains(det.result.rect, det.allGauges[k])

(***************************************************************************)
(* C24 (amended): the minimum and maximum range over the gauges of         *)
(* positive width and height only (empty gauges are left out, and with     *)
(* only empty gauges nothing is found); the rect has the stated x, y,      *)
(* width and height for those gauges.  It reaches to the right of and      *)
(* below every such gauge; it contains such a gauge whole when the gauge   *)
(* does not start left of or above the viewport origin, the clamped origin *)
(* cutting off the part at negative coordinates.                           *)
(***************************************************************************)
C24_BoxOfSizedGauges ==
  TightCase =>
    LET G == {k \in 1..Len(det.allGauges) :
                det.allGauges[k].width > 0 /\ det.allGauges[k].height > 0}
        r == det.result.rect
    IN /\ G # {}
       /\ r = BoxOf(G)
       /\ \A k \in G :
            LET g == det.allGauges[k]
            IN /\ g.left + g.width <= r.x + r.width
               /\ g.top + g.height <= r.y + r.height
               /\ (g.left >= 0 /\ g.top >= 0) => Contains(r, g)

\* Two gauges of positive size, far apart: the box spans both.
C24_Witness ==
  /\ DetFound
  /\ Len(det.allGauges) = 2
  /\ det.allGauges[1] = [left |-> 40, top |-> 2, width |-> 10, height |-> 10]
  /\ det.allGauges[2] = [left |-> 3, top |-> -8, width |-> 10, height |-> 10]
  /\ det.result.rect = [x |-> 0, y |-> 0, width |-> 57, height |-> 30]

(***************************************************************************)
(* C25 (as stated): with no gauge found and a container of positive width  *)
(* and height the returned rect is the container's rectangle expanded by   *)
(* the fallback padding and clamped to the viewport: x >= 0, y >= 0,       *)
(* 0 < width <= viewport width, 0 < height <= viewport height, and the     *)
(* rect lies inside the viewport.                                          *)
(***************************************************************************)
FallbackCase ==
  /\ det.phase = "returned"
  /\ det.allGauges = <<>>
  /\ det.container.present
  /\ det.container.width > 0 /\ det.container.height > 0

FallbackBounds ==
  /\ det.result.found
  /\ det.result.rect.x >= 0
  /\ det.result.rect.y >= 0
  /\ 0 < det.result.rect.width
  /\ det.result.rect.width <= det.viewport.innerWidth
  /\ 0 < det.result.rect.height
  /\ det.result.rect.height <= det.viewport.innerHeight

C25_FallbackInsideViewport ==
  FallbackCase =>
    /\ FallbackBounds
    /\ det.result.rect.x + det.result.rect.width <= det.viewport.innerWidth
    /\ det.result.rect.y + det.result.rect.height <= det.viewport.innerHeight

(***************************************************************************)
(* C25 (amended): with no gauge found and a container of positive width    *)
(* and height the returned rect has x = max(0, container.x - 10),          *)
(* y = max(0, container.y - 10), width = min(viewport width,               *)
(* container.width + 20), height = min(viewport height,                    *)
(* container.height + 20): x >= 0, y >= 0, 0 < width <= viewport width,    *)
(* 0 < height <= viewport height.  Only the size is limited; the rect can  *)
(* reach beyond the right or bottom edge of the viewport.                  *)
(***************************************************************************)
C25_FallbackSizeLimited ==
  FallbackCase =>
    /\ FallbackBounds
    /\ det.result.rect.x =
         IF det.container.x > 10 THEN det.container.x - 10 ELSE 0
    /\ det.result.rect.y =
         IF det.container.y > 10 THEN det.container.y - 10 ELSE 0
    /\ det.result.rect.width =
         IF det.container.width + 20 < det.viewport.innerWidth
           THEN det.container.width + 20 ELSE det.viewport.innerWidth
    /\ det.result.rect.height =
         IF det.container.height + 20 < det.viewport.innerHeight
           THEN det.container.height + 20 ELSE det.viewport.innerHeight

\* A wide container near the right edge: the width is cut to the viewport's
\* and the rect reaches beyond the viewport.
C25_Witness ==
  /\ FallbackCase
  /\ det.container.x = 95 /\ det.container.width = 90
  /\ det.result.found
  /\ det.result.rect.x = 85 /\ det.result.rect.width = 100

(***************************************************************************)
(* The download and its results entry                                      *)
(***************************************************************************)
\* The capture the iteration went on with: the last one before position k.
LastCaptureBefore(k) ==
  LET C == {c \in 1..(k - 1) : log[c].ev = "capture"}
  IN  IF C = {} THEN 0 ELSE CHOOSE c \in C : \A d \in C : d <= c

\* The download API was invoked at position k of the iteration's history.
Dispatched(k) == log[k].ev = "download" /\ log[k].out = "ok"

\* The iteration's capture was of at least the minimum size and the Cropper
\* answered with an image, both before position k.
ChecksPassedBefore(k) ==
  /\ LastCaptureBefore(k) # 0
  /\ log[LastCaptureBefore(k)].out = "returned"
  /\ log[LastCaptureBefore(k)].len >= MIN_SCREENSHOT_SIZE_BYTES
  /\ \E j \in (LastCaptureBefore(k) + 1)..(k - 1) :
       log[j].ev = "crop" /\ log[j].out = "image"

DispatchOncePerIteration ==
  /\ Cardinality({k \in 1..Len(log) : log[k].ev = "download"}) <= 1
  /\ \A m \in {"mobile", "desktop"} : Cardinality(DownloadsFor(m)) <= 1
  /\ \A k \in 1..Len(log) : Dispatched(k) => ChecksPassedBefore(k)

\* Every dispatched download, whatever became of it, has its success entry.
DownloadKeepsEntry ==
  \A k \in 1..Len(downloads) :
    \E j \in 1..Len(results) :
      results[j] = [deviceType |-> downloads[k].image,
                    filename |-> downloads[k].filename]

\* The step that dispatches a download appends the success entry while the
\* download is still in progress.
EntryWithDispatch ==
  Len(downloads') = Len(downloads) + 1 =>
    /\ downloads'[Len(downloads')].state = "in_progress"
    /\ results' = Append(results,
         [deviceType |-> downloads'[Len(downloads')].image,
          filename |-> downloads'[Len(downloads')].filename])

\* A download that completes or fails changes only the download itself.
SettleLeavesRun ==
  (Len(downloads') = Len(downloads) /\ downloads' # downloads) =>
    /\ results' = results
    /\ notifications' = notifications
    /\ finished' = finished
    /\ pc' = pc

\* C26: in an iteration the download API is invoked at most once and only
\* after a capture of at least the minimum size and a non-null crop; the
\* success entry is appended in the step of the dispatch, while the download
\* is in progress; a download that fails later changes neither the entry nor
\* the notifications.
C26_DownloadOnceEntryStays ==
  /\ []DispatchOncePerIteration
  /\ []DownloadKeepsEntry
  /\ [][EntryWithDispatch /\ SettleLeavesRun]_vars

\* Both downloads failed after the run reported two screenshots.
C26_Witness ==
  /\ pc = "done"
  /\ Len(downloads) = 2
  /\ \A k \in 1..2 : downloads[k].state = "interrupted"
  /\ successCount(results) = 2
  /\ notifications # <<>>
  /\ notifications[Len(notifications)].kind = "both"

(***************************************************************************)
(* What a run leaves in the page's document                                *)
(***************************************************************************)
\* Notifications one run can ask for.
MaxNotifications == 2

\* CONFIG.VIEWPORT.WIDTH
VIEWPORT_WIDTH == 1200

\* `width=${width}, initial-scale=1.0, user-scalable=no`
ViewportContent(width) ==
  [width |-> width, initialScale |-> "1.0", userScalable |-> "no"]

\* The page's own meta viewport, as PageSpeed Insights serves it.
PageViewportContent ==
  [width |-> 0, initialScale |-> "1", userScalable |-> "yes"]

\* document.querySelector('meta[name="viewport"]') before the run: missing,
\* the page's own, or already what the extension writes.
Heads ==
  {[meta |-> FALSE, content |-> ViewportContent(0)],
   [meta |-> TRUE, content |-> PageViewportContent],
   [meta |-> TRUE, content |-> ViewportContent(VIEWPORT_WIDTH)]}

DocInit ==
  /\ MainAtRest
  /\ FunAtRest
  /\ dom = DomAtRest /\ det = DetAtRest /\ hl = HlAtRest /\ wfr = WfrAtRest
  /\ \E h \in Heads :
       doc = [phase |-> "clicked", head |-> h, before |-> h, body |-> {},
              timers |-> {}, shown |-> 0, clicks |-> 0]

\* The listener's gate refuses the tab: only the notification follows.
DocGate ==
  /\ doc.phase = "clicked"
  /\ doc' = [doc EXCEPT !.phase = "notify"]
  /\ UNCHANGED <<mainVars, funVars, dom, det, hl, wfr>>

\* setViewportSize in the page: the meta element is created when it is
\* missing and its content is overwritten.
setViewportSize(head, width) ==
  [meta |-> TRUE, content |-> ViewportContent(width)]

\* safeExecuteScript(tab.id, setViewportSize, ..): the injection runs, or it
\* fails and the run goes to the error notification.
SetViewportSizeInPage ==
  /\ doc.phase = "clicked"
  /\ \/ doc' = [doc EXCEPT !.phase = "loop",
                  !.head = setViewportSize(doc.head, VIEWPORT_WIDTH)]
     \/ doc' = [doc EXCEPT !.phase = "notify"]
  /\ UNCHANGED <<mainVars, funVars, dom, det, hl, wfr>>

\* targetButton.click() of switchToDeviceView, once per iteration at most.
ClickModeControl ==
  /\ doc.phase = "loop"
  /\ doc.clicks < 2
  /\ doc' = [doc EXCEPT !.clicks = @ + 1]
  /\ UNCHANGED <<mainVars, funVars, dom, det, hl, wfr>>

\* The loop is over: the summary or the error notification is next.
DocLoopEnds ==
  /\ doc.phase = "loop"
  /\ doc' = [doc EXCEPT !.phase = "notify"]
  /\ UNCHANGED <<mainVars, funVars, dom, det, hl, wfr>>

\* showNotification in the page: the element is appended to the body and a
\* timer of notificationDuration is set.
ShowNotification ==
  /\ doc.phase = "notify"
  /\ doc.shown < MaxNotifications
  /\ doc' = [doc EXCEPT !.shown = @ + 1,
               !.body = @ \cup {doc.shown + 1},
               !.timers = @ \cup {doc.shown + 1}]
  /\ UNCHANGED <<mainVars, funVars, dom, det, hl, wfr>>

\* The listener returns.
DocRunEnds ==
  /\ doc.phase = "notify"
  /\ doc' = [doc EXCEPT !.phase = "finished"]
  /\ UNCHANGED <<mainVars, funVars, dom, det, hl, wfr>>

\* The page takes a notification out of the body itself (it renders anew).
PageDetaches ==
  /\ \E n \in doc.body : doc' = [doc EXCEPT !.body = @ \ {n}]
  /\ UNCHANGED <<mainVars, funVars, dom, det, hl, wfr>>

\* The timer of a notification: if (notification.parentNode)
\* notification.parentNode.removeChild(notification).
NotificationTimer ==
  /\ \E n \in doc.timers :
       doc' = [doc EXCEPT !.timers = @ \ {n}, !.body = @ \ {n}]
  /\ UNCHANGED <<mainVars, funVars, dom, det, hl, wfr>>

DocNext ==
  \/ DocGate
  \/ SetViewportSizeInPage
  \/ ClickModeControl
  \/ DocLoopEnds
  \/ ShowNotification
  \/ DocRunEnds
  \/ PageDetaches
  \/ NotificationTimer

DocSpec == DocInit /\ [][DocNext]_vars

\* The run has finished and all its timers have fired.
DocSettled == doc.phase = "finished" /\ doc.timers = {}

\* C27: once a run has finished and all its timers have fired, no notification
\* is in the body and the document head is as it was before the run: nothing
\* the extension added or modified remains.
C27_NothingRemains ==
  DocSettled => (doc.body = {} /\ doc.head = doc.before)

\* The part that holds: the notifications are gone.
C27_NotificationsGone == DocSettled => doc.body = {}

\* A settled run that showed a notification and left the page's meta viewport
\* overwritten.
C27_Witness ==
  /\ DocSettled
  /\ doc.shown >= 1
  /\ doc.clicks = 2
  /\ doc.before = [meta |-> TRUE, content |-> PageViewportContent]
  /\ doc.head # doc.before

(***************************************************************************)
(* The outline highlight of the content script                             *)
(***************************************************************************)
\* 'highlightElement' messages one page receives.
MaxHighlights == 3

\* element.style.cssText before the first request: the declarations of the
\* page, by property.
InlineStyles ==
  [color : {"", "page"}, outline : {"", "page"}, transition : {"", "page"}]

HlInit ==
  /\ MainAtRest
  /\ FunAtRest
  /\ dom = DomAtRest /\ det = DetAtRest /\ doc = DocAtRest /\ wfr = WfrAtRest
  /\ \E s \in InlineStyles :
       hl = [phase |-> "listening", style |-> s, before |-> s,
             timers |-> <<>>, requests |-> 0, highlighted |-> 0]

\* element.style.cssText += `outline: .. !important; outline-offset: ..
\* !important; transition: .. !important;`: the appended declarations replace
\* the ones of the same property.
Highlighted(style) ==
  [style EXCEPT !.outline = "highlight", !.transition = "highlight"]

\* The onMessage listener with request.action === "highlightElement":
\* highlightTargetElement() finds an element or not; with an element it keeps
\* the current cssText in originalStyle, appends the outline and sets the
\* 2000 ms timer.
HighlightTargetElement ==
  /\ hl.phase = "listening"
  /\ hl.requests < MaxHighlights
  /\ \E element \in BOOLEAN :
       IF element
         THEN hl' = [hl EXCEPT !.requests = @ + 1,
                       !.highlighted = @ + 1,
                       !.timers = Append(@, [originalStyle |-> hl.style]),
                       !.style = Highlighted(hl.style)]
         ELSE hl' = [hl EXCEPT !.requests = @ + 1]
  /\ UNCHANGED <<mainVars, funVars, dom, det, doc, wfr>>

\* The timer set first fires first (all have the same delay):
\* element.style.cssText = originalStyle.
HighlightTimer ==
  /\ hl.timers # <<>>
  /\ hl' = [hl EXCEPT !.style = Head(hl.timers).originalStyle,
              !.timers = Tail(@)]
  /\ UNCHANGED <<mainVars, funVars, dom, det, doc, wfr>>

HlNext ==
  \/ HighlightTargetElement
  \/ HighlightTimer

HlSpec == HlInit /\ [][HlNext]_vars

\* C28: once all pending 2-second timers have fired, the inline style of the
\* highlighted element is the one it had before the first highlight request,
\* whatever the sequence of requests was.
C28_HighlightIsTransient ==
  (hl.phase = "listening" /\ hl.highlighted >= 1 /\ hl.timers = <<>>)
    => hl.style = hl.before

\* Two requests overlapped and the outline stayed.
C28_Witness ==
  /\ hl.phase = "listening"
  /\ hl.highlighted = 2
  /\ hl.timers = <<>>
  /\ hl.before.outline = ""
  /\ hl.style.outline = "highlight"

(***************************************************************************)
(* The mode in the file name                                               *)
(***************************************************************************)
\* The file name carries "-<mode>-" right before its timestamp of 19
\* characters and ".png".
HasModeToken(name, m) ==
  LET e == Len(name) - 19 - Len(DotPng)
      t == <<"-">> \o ModeChars(m) \o <<"-">>
  IN  /\ e - Len(t) >= Len(Prefix)
      /\ SubSeq(name, e - Len(t) + 1, e) = t

\* The mode requested for the n-th iteration.
Requested(n) == IF n = 1 THEN "mobile" ELSE "desktop"

\* The step that dispatches a download in iteration i names the file and the
\* results entry after the mode requested for that iteration.
NamedAsRequested ==
  Len(downloads') = Len(downloads) + 1 =>
    /\ HasModeToken(downloads'[Len(downloads')].filename, Requested(i))
    /\ results'[Len(results')].deviceType = Requested(i)
    /\ results'[Len(results')].filename = downloads'[Len(downloads')].filename

\* The two files of a fully successful run.
TwoNamesDiffer ==
  Len(downloads) = 2 =>
    /\ HasModeToken(downloads[1].filename, "mobile")
    /\ HasModeToken(downloads[2].filename, "desktop")
    /\ downloads[1].filename # downloads[2].filename

\* C29: the mode token of a downloaded file's name and of its results entry is
\* the mode requested for the iteration, mobile for the first and desktop for
\* the second, whatever the Detector reported and whether or not the switch
\* succeeded; the two files of a fully successful run have different names.
C29_ModeTokenIsRequested ==
  /\ [][NamedAsRequested]_vars
  /\ []TwoNamesDiffer

\* The mobile file of an iteration whose switch failed and whose Detector
\* reported the desktop panel.
C29_Witness ==
  /\ pc = "switch" /\ i = 2
  /\ log[1] = Ev("mobile", "switch", "false")
  /\ elementInfo = [found |-> TRUE, deviceType |-> "desktop"]
  /\ Len(downloads) = 1
  /\ HasModeToken(downloads[1].filename, "mobile")
  /\ results[Len(results)].deviceType = "mobile"

(***************************************************************************)
(* waitForResults of the content script                                    *)
(***************************************************************************)
\* const checkInterval = 1000, const maxWaitTime = 30000
checkInterval == 1000
maxWaitTime == 30000

\* The loops the script can start: the call at its end and the call delayed
\* by setTimeout when document.readyState is "complete".
Loops == {1, 2}

NotStarted == [state |-> "none", elapsed |-> 0, checks |-> 0, sawResults |-> 0]

WfrInit ==
  /\ MainAtRest
  /\ FunAtRest
  /\ dom = DomAtRest /\ det = DetAtRest /\ doc = DocAtRest /\ hl = HlAtRest
  /\ \E complete \in BOOLEAN, present \in BOOLEAN :
       wfr = [phase |-> "loading", complete |-> complete,
              present |-> present, indicator |-> "none", delayed |-> "none",
              loop |-> [l \in Loops |-> NotStarted]]

\* waitForResults(): elapsed = 0 and the interval is set.
waitForResults(w, l) ==
  [w EXCEPT !.loop[l] = [NotStarted EXCEPT !.state = "running"]]

\* The script runs: waitForResults() and, with readyState "complete",
\* setTimeout(waitForResults, 1000).
ScriptStart ==
  /\ wfr.phase = "loading"
  /\ wfr' = [waitForResults(wfr, 1) EXCEPT
               !.phase = "loaded",
               !.delayed = IF wfr.complete THEN "pending" ELSE "none"]
  /\ UNCHANGED <<mainVars, funVars, dom, det, doc, hl>>

\* The timer of setTimeout(waitForResults, 1000) fires.
DelayedStart ==
  /\ wfr.delayed = "pending"
  /\ wfr' = [waitForResults(wfr, 2) EXCEPT !.delayed = "fired"]
  /\ UNCHANGED <<mainVars, funVars, dom, det, doc, hl>>

\* The page renders its results, or takes them away for a new analysis.
PageChanges ==
  /\ wfr.phase = "loaded"
  /\ wfr' = [wfr EXCEPT !.present = ~@]
  /\ UNCHANGED <<mainVars, funVars, dom, det, doc, hl>>

\* addReadyIndicator(): nothing when the indicator is in the document.
addReadyIndicator(indicator) ==
  IF indicator = "none" THEN "visible" ELSE indicator

\* Bug: the loop never gives up.
TimedOutNever(waited) == FALSE

\* elapsed >= maxWaitTime
TimedOut(waited) == waited >= maxWaitTime

\* A tick of the interval of loop l, which clearInterval has not stopped.
Tick(l) ==
  /\ wfr.loop[l].state = "running"
  /\ LET t == wfr.loop[l]
         after == [t EXCEPT !.elapsed = @ + checkInterval,
                            !.checks = @ + 1,
                            !.sawResults = IF wfr.present THEN @ + 1 ELSE @]
     IN  IF wfr.present
           THEN wfr' = [wfr EXCEPT
                          !.loop[l] = [after EXCEPT !.state = "found"],
                          !.indicator = addReadyIndicator(@)]
         ELSE IF TimedOut(t.elapsed)
           THEN wfr' = [wfr EXCEPT !.loop[l] = [after EXCEPT !.state = "timeout"]]
         ELSE wfr' = [wfr EXCEPT !.loop[l] = after]
  /\ UNCHANGED <<mainVars, funVars, dom, det, doc, hl>>

\* The 3000 ms timer of the indicator: indicator.style.opacity = "0".
IndicatorFades ==
  /\ wfr.indicator = "visible"
  /\ wfr' = [wfr EXCEPT !.indicator = "fading"]
  /\ UNCHANGED <<mainVars, funVars, dom, det, doc, hl>>

\* The 300 ms timer after the fade: the indicator is removed.
IndicatorRemoved ==
  /\ wfr.indicator = "fading"
  /\ wfr' = [wfr EXCEPT !.indicator = "none"]
  /\ UNCHANGED <<mainVars, funVars, dom, det, doc, hl>>

Ticks == \E l \in Loops : Tick(l)

WfrNext ==
  \/ ScriptStart
  \/ DelayedStart
  \/ PageChanges
  \/ Ticks
  \/ IndicatorFades
  \/ IndicatorRemoved

WfrSpec == WfrInit /\ [][WfrNext]_vars

\* Timers and intervals fire.
FairWfrSpec ==
  /\ WfrSpec
  /\ WF_vars(ScriptStart)
  /\ WF_vars(DelayedStart)
  /\ \A l \in Loops : WF_vars(Tick(l))

\* The most checks a loop can make.
MaxChecks == maxWaitTime \div checkInterval + 1

Cleared(l) == wfr.loop[l].state \in {"found", "timeout"}

\* A running loop has seen no results and has not used up its time; a loop
\* that found results saw them at its last check only; a loop that timed out
\* saw none and made its last check with elapsed at maxWaitTime.
LoopShape ==
  \A l \in Loops :
    LET t == wfr.loop[l]
    IN  /\ t.checks <= MaxChecks
        /\ t.elapsed = t.checks * checkInterval
        /\ t.state = "running" =>
             (t.sawResults = 0 /\ t.elapsed <= maxWaitTime)
        /\ t.state = "found" => t.sawResults = 1
        /\ t.state = "timeout" =>
             (t.sawResults = 0 /\ t.checks = MaxChecks
              /\ t.elapsed - checkInterval = maxWaitTime)

\* A cleared loop makes no further check.
NoTickAfterClear ==
  \A l \in Loops : Cleared(l) => wfr'.loop[l] = wfr.loop[l]

\* Every loop that was started is cleared in the end.
Started(l) == wfr.loop[l].state # "none"

\* C30: every polling loop of waitForResults stops: it is cleared at the first
\* tick that finds a results element, or else at the first tick at which the
\* accumulated elapsed time has reached 30000 ms; no loop makes more than 31
\* checks and a cleared loop never ticks again.
C30_PollingLoopsStop ==
  /\ []LoopShape
  /\ [][NoTickAfterClear]_vars
  /\ \A l \in Loops : Started(l) ~> Cleared(l)

\* Both loops ran; one found the results, the other timed out after 31
\* checks.
C30_Witness ==
  /\ wfr.phase = "loaded"
  /\ wfr.loop[1].state = "timeout" /\ wfr.loop[1].checks = 31
  /\ wfr.loop[2].state = "found" /\ wfr.loop[2].checks < 31

====
